---- MODULE Spec2Model ----
(***************************************************************************)
(* Work-queue coordination layer of the dataViz pipeline                   *)
(* (src/src/db/db_utils.py and the three stage pipelines that call it).    *)
(*                                                                         *)
(* The store is one SQLite file in WAL mode.  Every write transaction      *)
(* takes the single writer lock of the file; an uncommitted write is       *)
(* invisible to every other connection and is discarded when the           *)
(* transaction rolls back or its process dies.  The committed contents of  *)
(* the status columns are the variables download_status,                   *)
(* processing_status and clothing_status; the uncommitted UPDATE of an     *)
(* open claim transaction is (pc[w], ids_to_lock[w]), see Uncommitted.     *)
(***************************************************************************)
EXTENDS Naturals, FiniteSets, Sequences, TLC

\* ---------------------------------------------------------------- bounds
NumWorkers == 2
NumCities == 2
NumImages == 3
NumDetections == 2
BatchSize == 2
MaxPopulation == 2
DB_BATCH_SIZE == 2
SCANNER_WORKERS == 2
DOWNLOAD_WORKERS == 2
QueueMaxsize == 2
NumTiles == 2
MaxTileImages == 2

Workers == 1..NumWorkers
CityIds == 1..NumCities
ImageIds == 1..NumImages
DetectionIds == 1..NumDetections

\* The three pipeline scripts a worker process can be.
Stages == <<"download", "detect", "clothing">>

\* Status values of the three status columns; "absent" marks a row id that
\* has not been inserted yet.
CityStatus == {"pending", "processing", "done"}
RowStatus == {"pending", "processing", "completed"}

VARIABLES
    stage,                  \* stage[w]: the script process w runs
    population,             \* cities.population
    bbox,                   \* cities.bbox: "json" when json.loads accepts the text
    download_status,        \* cities.download_status (committed)
    processing_status,      \* mapillary_images.processing_status (committed)
    clothing_status,        \* mapillary_detections.clothing_status (committed)
    crop_path,              \* mapillary_detections.crop_path: "null" or "path"
    clothing_measurements,  \* detection ids that own clothing_measurements rows
    writer,                 \* holder of the store's writer lock, 0 when free
    pc,                     \* control point of each worker process
    ids_to_lock,            \* rows selected inside the open claim transaction
    batch,                  \* rows the last claim call returned to the worker
    to_insert,              \* records the stage work produced, not yet inserted
    claimLog,               \* how often each row was returned by a claim call
    completeLog,            \* how often each row was written by a complete call
    image_id,               \* mapillary_images.image_id (UNIQUE), 0 for no row
    city_id,                \* mapillary_images.city_id, 0 for no row
    file_path,              \* mapillary_images.file_path, <<>> for no row
    db_buffer,              \* worker_downloader's db_buffer of each downloader
    insertLog,              \* history: records of the last insert_image_records_batch call
    schema,                 \* how often each table, column and index is in the store
    columns,                \* column names the last PRAGMA table_info gave a process
    sequential,             \* history: create_tables began after another call had ended
    alters,                 \* history: columns each process added by ALTER TABLE
    rolledBack,             \* history: rows whose UPDATE the last failed call rolled back
    seen_ids,               \* process_city's seen_ids of each downloader
    tile_queue,             \* process_city: tiles left on tile_queue
    image_queue,            \* process_city: image_queue, 0 is the None sentinel
    scanner_tasks,          \* process_city: the worker_scanner tasks
    downloader_tasks,       \* process_city: the worker_downloader tasks
    process_city,           \* process_city: its control point, existing_ids and sentinels sent
    cityLog,                \* history: ids put on image_queue, records each downloader
                            \* appended to db_buffer and passed to insert_image_records_batch
    dropped                 \* history: images whose detections were produced and not inserted

vars == <<stage, population, bbox, download_status, processing_status, clothing_status,
          crop_path, clothing_measurements, writer, pc, ids_to_lock, batch,
          to_insert, claimLog, completeLog, image_id, city_id, file_path,
          db_buffer, insertLog, schema, columns, sequential, alters, rolledBack,
          seen_ids, tile_queue, image_queue, scanner_tasks, downloader_tasks,
          process_city, cityLog, dropped>>

\* State of the tasks inside one process_city run.
cityVars == <<tile_queue, image_queue, scanner_tasks, downloader_tasks, process_city, cityLog>>

schemaVars == <<schema, columns, sequential, alters>>

\* The columns of mapillary_images that only an INSERT writes.
imageCols == <<image_id, city_id, file_path>>

dbVars == <<download_status, processing_status, clothing_status, crop_path,
            clothing_measurements, imageCols>>

Min(a, b) == IF a < b THEN a ELSE b

\* ------------------------------------------------------------ the store

\* Faulty variant of LockFree: a transaction that starts without taking the writer lock.
LockFreeDeferred == TRUE

\* BEGIN IMMEDIATE succeeds only while no other connection holds the writer
\* lock; the same holds for the first write of an implicit transaction.
LockFree == writer = 0

\* The lock-wait timeout (30 s) expires while another connection writes.
LockBusy(w) == writer # 0 /\ writer # w

\* Faulty variant of Release: the transaction is left open when the call returns.
ReleaseNever(w) == writer

\* Leaving the "with conn:" block (commit or rollback) or the death of the
\* process releases the writer lock.
Release(w) == IF writer = w THEN 0 ELSE writer

\* The rows an open claim transaction has updated but not yet committed.
Uncommitted(w) == IF pc[w] = "return" THEN ids_to_lock[w] ELSE {}

\* Faulty variant of RolledBack: the UPDATE of one row survives the failure.
RolledBackButOne(status, w) ==
    [r \in DOMAIN status |->
        IF Uncommitted(w) # {} /\ r = (CHOOSE x \in Uncommitted(w) : TRUE)
        THEN "processing" ELSE status[r]]

\* The status column after the "with conn:" block is left by an exception (or
\* the process dies): the transaction is rolled back, the UPDATE of the rows
\* Uncommitted(w) is undone and the column is as it was at BEGIN.
RolledBack(status, w) == status

\* Faulty variant of Limit: the batch size is ignored, one row is fetched.
LimitOne(rows, n) == {S \in SUBSET rows : Cardinality(S) = Min(1, Cardinality(rows))}

\* LIMIT n without ORDER BY: any n of the matching rows, all if fewer match.
Limit(rows, n) == {S \in SUBSET rows : Cardinality(S) = Min(n, Cardinality(rows))}

\* The lowest n row ids not yet in use (AUTOINCREMENT).
RECURSIVE NextIds(_, _)
NextIds(free, n) ==
    IF n = 0 \/ free = {} THEN {}
    ELSE LET m == CHOOSE x \in free : \A y \in free : x <= y
         IN  {m} \cup NextIds(free \ {m}, n - 1)

AbsentImages == {i \in ImageIds : processing_status[i] = "absent"}
AbsentDetections == {d \in DetectionIds : clothing_status[d] = "absent"}

\* Records other workers have produced and not yet inserted (model bound only).
Reserved(w) ==
    LET others == {v \in Workers : v # w /\ stage[v] = "detect"}
        RECURSIVE Sum(_)
        Sum(S) == IF S = {} THEN 0
                  ELSE LET v == CHOOSE x \in S : TRUE
                       IN  Cardinality(to_insert[v]) + Sum(S \ {v})
    IN  Sum(others)

NoLog == [city |-> [c \in CityIds |-> 0],
          image |-> [i \in ImageIds |-> 0],
          detection |-> [d \in DetectionIds |-> 0]]

\* n more calls logged for the rows ids
Logged(log, ids) == [r \in DOMAIN log |-> IF r \in ids THEN log[r] + 1 ELSE log[r]]

StageIndex(s) == CHOOSE i \in 1..3 : Stages[i] = s

\* os.path.join(city_dir, f"{img_id}.jpg"): one file per city and image.
PathOf(c, e) == <<c, e>>

\* The record worker_downloader builds for image e of city c.
Record(c, e) == [image_id |-> e, city_id |-> c, file_path |-> PathOf(c, e)]

\* The city whose download produced the image rows a store starts with.
FirstCityOf(i) == 1 + (i % NumCities)

\* Every city's bbox is text that json.loads accepts.
ParsableBbox == [c \in CityIds |-> "json"]

\* seen_ids of a process that is not inside process_city
NoSeen == [w \in Workers |-> {}]

\* The tasks of process_city and the None sentinel of image_queue.
Scanners == 1..SCANNER_WORKERS
Downloaders == 1..DOWNLOAD_WORKERS
None == 0

\* Nothing has been put on image_queue, appended to a db_buffer or passed to
\* insert_image_records_batch.
NoCityLog ==
    [put |-> [e \in ImageIds |-> 0],
     appended |-> [k \in Downloaders |-> <<>>],
     passed |-> [k \in Downloaders |-> <<>>]]

\* No process_city run has begun.
NoTasks ==
    /\ tile_queue = 0
    /\ image_queue = <<>>
    /\ scanner_tasks = [k \in Scanners |-> [pc |-> "none", images |-> <<>>, img |-> None]]
    /\ downloader_tasks = [k \in Downloaders |-> [pc |-> "none", item |-> None, db_buffer |-> <<>>]]
    /\ process_city = [pc |-> "none", sentinels |-> 0, existing_ids |-> {}]
    /\ cityLog = NoCityLog

\* No downloader has buffered or inserted anything yet.
NoBuffer == [w \in Workers |-> <<>>]

\* What create_tables creates: four tables, the three columns it migrates,
\* and the index on clothing_status.
Objects ==
    {"cities", "mapillary_images", "processing_status", "mapillary_detections",
     "crop_path", "clothing_status", "clothing_measurements", "idx_clothing_status"}

\* The store every pipeline works on once create_tables has ended.
SchemaReady ==
    /\ schema = [o \in Objects |-> 1]
    /\ columns = [w \in Workers |-> {}]
    /\ sequential = [w \in Workers |-> FALSE]
    /\ alters = [w \in Workers |-> {}]
    /\ rolledBack = [w \in Workers |-> {}]

\* The insert history is kept only where a property reads it.
NoInsertLog == [on |-> FALSE, records |-> <<>>]

\* The history of detections that were not inserted is kept only where a
\* property reads it.
NoDropped == [on |-> FALSE, images |-> {}]

\* The history after the detections produced for the images were given up.
Dropped(images) ==
    IF dropped.on THEN [dropped EXCEPT !.images = @ \cup images] ELSE dropped

\* Some process runs the script of stage s.
Runs(s) == \E w \in Workers : stage[w] = s

\* The store starts with the rows the running stages read: populations that
\* differ only where a downloader orders by them, stored detections only
\* where a clothing analyzer claims them, stored images unless nothing but
\* clothing analyzers run.
Init ==
    /\ stage \in [Workers -> {Stages[i] : i \in 1..3}]
    /\ \A v, w \in Workers : v < w => StageIndex(stage[v]) <= StageIndex(stage[w])
    /\ population \in [CityIds -> 1..MaxPopulation]
    /\ ~Runs("download") => population = [c \in CityIds |-> 1]
    /\ download_status = [c \in CityIds |-> "pending"]
    /\ \E k \in {0, NumImages} :
          /\ (~Runs("download") /\ ~Runs("detect")) => k = 0
          /\ processing_status = [i \in ImageIds |-> IF i <= k THEN "pending" ELSE "absent"]
          /\ image_id = [i \in ImageIds |-> IF i <= k THEN i ELSE 0]
          /\ city_id = [i \in ImageIds |-> IF i <= k THEN FirstCityOf(i) ELSE 0]
          /\ file_path = [i \in ImageIds |-> IF i <= k THEN PathOf(FirstCityOf(i), i) ELSE <<>>]
    /\ \E k \in {0, NumDetections} :
          /\ ~Runs("clothing") => k = 0
          /\ clothing_status = [d \in DetectionIds |-> IF d <= k THEN "pending" ELSE "absent"]
          /\ crop_path \in [DetectionIds -> {"null", "path"}]
          /\ \A d \in DetectionIds : d > k => crop_path[d] = "null"
    /\ clothing_measurements = {}
    /\ writer = 0
    /\ pc = [w \in Workers |-> "poll"]
    /\ ids_to_lock = [w \in Workers |-> {}]
    /\ batch = [w \in Workers |-> {}]
    /\ to_insert = [w \in Workers |-> {}]
    /\ claimLog = NoLog
    /\ completeLog = NoLog
    /\ db_buffer = NoBuffer
    /\ seen_ids = NoSeen
    /\ dropped = NoDropped
    /\ NoTasks
    /\ bbox = ParsableBbox
    /\ insertLog = NoInsertLog
    /\ SchemaReady

\* ------------------------------------------- detection stage (images)

\* Faulty variant of PendingImages: WHERE processing_status != 'completed'
PendingOrProcessingImages ==
    {i \in ImageIds : processing_status[i] \in {"pending", "processing"}}

\* WHERE processing_status = 'pending'
PendingImages == {i \in ImageIds : processing_status[i] = "pending"}

claim_batch_begin(w) ==
    /\ stage[w] = "detect" /\ pc[w] = "poll"
    /\ LockFree
    /\ writer' = w
    /\ pc' = [pc EXCEPT ![w] = "select"]
    /\ UNCHANGED <<stage, bbox, cityVars, dropped, population, schemaVars, rolledBack, seen_ids, db_buffer, insertLog, dbVars, ids_to_lock, batch, to_insert, claimLog, completeLog>>

\* BEGIN IMMEDIATE times out: the Error is caught and [] is returned.
claim_batch_busy(w) ==
    /\ stage[w] = "detect" /\ pc[w] = "poll"
    /\ LockBusy(w)
    /\ pc' = [pc EXCEPT ![w] = "sleep"]
    /\ UNCHANGED <<stage, bbox, cityVars, dropped, population, schemaVars, rolledBack, seen_ids, db_buffer, insertLog, dbVars, writer, ids_to_lock, batch, to_insert, claimLog, completeLog>>

claim_batch_select(w) ==
    /\ stage[w] = "detect" /\ pc[w] = "select"
    /\ \E rows \in Limit(PendingImages, BatchSize) :
          IF rows = {}
          THEN /\ writer' = Release(w)
               /\ pc' = [pc EXCEPT ![w] = "sleep"]
               /\ UNCHANGED ids_to_lock
          ELSE /\ ids_to_lock' = [ids_to_lock EXCEPT ![w] = rows]
               /\ pc' = [pc EXCEPT ![w] = "update"]
               /\ UNCHANGED writer
    /\ UNCHANGED <<stage, bbox, cityVars, dropped, population, schemaVars, rolledBack, seen_ids, db_buffer, insertLog, dbVars, batch, to_insert, claimLog, completeLog>>

claim_batch_update(w) ==
    /\ stage[w] = "detect" /\ pc[w] = "update"
    /\ pc' = [pc EXCEPT ![w] = "return"]
    /\ UNCHANGED <<stage, bbox, cityVars, dropped, population, schemaVars, rolledBack, seen_ids, db_buffer, insertLog, dbVars, writer, ids_to_lock, batch, to_insert, claimLog, completeLog>>

\* Faulty variant of ProcessingImages: the UPDATE is left out.
ProcessingImagesNoUpdate(ids) == processing_status

\* UPDATE mapillary_images SET processing_status = 'processing' WHERE id IN (ids)
ProcessingImages(ids) ==
    [i \in ImageIds |-> IF i \in ids THEN "processing" ELSE processing_status[i]]

\* Faulty variant of LockedImages: the last SELECT reads by status, not by id.
LockedImagesByStatus(w) ==
    ids_to_lock[w] \cup {i \in ImageIds : processing_status[i] = "processing"}

\* Faulty variant of LockedImages: fetchone() instead of fetchall().
LockedImagesFirst(w) ==
    IF ids_to_lock[w] = {} THEN {}
    ELSE {CHOOSE i \in ids_to_lock[w] : \A j \in ids_to_lock[w] : i <= j}

\* SELECT * FROM mapillary_images WHERE id IN (ids), read inside the
\* transaction: the rows of ids_to_lock.
LockedImages(w) == {i \in ImageIds : i \in ids_to_lock[w]}

\* The third SELECT, the commit of the "with conn:" block and the return.
claim_batch_return(w) ==
    /\ stage[w] = "detect" /\ pc[w] = "return"
    /\ processing_status' = ProcessingImages(Uncommitted(w))
    /\ batch' = [batch EXCEPT ![w] = LockedImages(w)]
    /\ claimLog' = [claimLog EXCEPT !.image = Logged(@, LockedImages(w))]
    /\ writer' = Release(w)
    /\ ids_to_lock' = [ids_to_lock EXCEPT ![w] = {}]
    /\ pc' = [pc EXCEPT ![w] = "work"]
    /\ UNCHANGED <<stage, bbox, cityVars, dropped, population, schemaVars, rolledBack, seen_ids, imageCols, db_buffer, insertLog, download_status, clothing_status, crop_path,
                   clothing_measurements, to_insert, completeLog>>

\* Faulty variant of claim_batch_error: the function has no except branch, the
\* error reaches run_consumer outside its try block and ends the process.
claim_batch_error_raised(w) ==
    /\ stage[w] = "detect" /\ pc[w] \in {"select", "update", "return"}
    /\ processing_status' = RolledBack(processing_status, w)
    /\ rolledBack' = [rolledBack EXCEPT ![w] = Uncommitted(w)]
    /\ writer' = Release(w)
    /\ ids_to_lock' = [ids_to_lock EXCEPT ![w] = {}]
    /\ pc' = [pc EXCEPT ![w] = "exited"]
    /\ UNCHANGED <<stage, bbox, cityVars, dropped, population, schemaVars, seen_ids, db_buffer, insertLog, imageCols, download_status, clothing_status, crop_path, clothing_measurements,
                   batch, to_insert, claimLog, completeLog>>

\* Any statement of the open transaction raises sqlite3.Error: the "with conn:"
\* block rolls back and the except branch returns [].
claim_batch_error(w) ==
    /\ stage[w] = "detect" /\ pc[w] \in {"select", "update", "return"}
    /\ processing_status' = RolledBack(processing_status, w)
    /\ rolledBack' = [rolledBack EXCEPT ![w] = Uncommitted(w)]
    /\ writer' = Release(w)
    /\ ids_to_lock' = [ids_to_lock EXCEPT ![w] = {}]
    /\ pc' = [pc EXCEPT ![w] = "sleep"]
    /\ UNCHANGED <<stage, bbox, cityVars, dropped, population, schemaVars, seen_ids, db_buffer, insertLog, imageCols, download_status, clothing_status, crop_path, clothing_measurements,
                   batch, to_insert, claimLog, completeLog>>

\* Stage work of run_consumer on a claimed batch: the images whose file exists
\* are fed to the model; to_insert holds the images in which a person was
\* found.  A batch without any valid file, an inference without person and an
\* exception raised by the stage work all lead to mark_batch_analysis_complete.
\* Faulty variant of detect_work: the ids kept for the complete call are those
\* of the images in which a person was found, not those of the claimed batch.
detect_work_found_only(w) ==
    /\ stage[w] = "detect" /\ pc[w] = "work"
    /\ \E found \in SUBSET batch[w] :
          /\ Cardinality(found) + Reserved(w) <= Cardinality(AbsentDetections)
          /\ to_insert' = [to_insert EXCEPT ![w] = found]
          /\ batch' = [batch EXCEPT ![w] = found]
          /\ pc' = [pc EXCEPT ![w] = IF found = {} THEN "complete" ELSE "insert"]
    /\ UNCHANGED <<stage, bbox, cityVars, dropped, population, schemaVars, rolledBack, seen_ids, db_buffer, insertLog, dbVars, writer, ids_to_lock, claimLog, completeLog>>

detect_work(w) ==
    /\ stage[w] = "detect" /\ pc[w] = "work"
    /\ \E found \in SUBSET batch[w] :
          /\ Cardinality(found) + Reserved(w) <= Cardinality(AbsentDetections)
          /\ to_insert' = [to_insert EXCEPT ![w] = found]
          /\ pc' = [pc EXCEPT ![w] = IF found = {} THEN "complete" ELSE "insert"]
    /\ UNCHANGED <<stage, bbox, cityVars, dropped, population, schemaVars, rolledBack, seen_ids, db_buffer, insertLog, dbVars, writer, ids_to_lock, batch, claimLog, completeLog>>

insert_detections_batch(w) ==
    /\ stage[w] = "detect" /\ pc[w] = "insert"
    /\ LockFree
    /\ LET new == NextIds(AbsentDetections, Cardinality(to_insert[w]))
       IN  /\ clothing_status' =
                 [d \in DetectionIds |-> IF d \in new THEN "pending" ELSE clothing_status[d]]
           /\ crop_path' =
                 [d \in DetectionIds |-> IF d \in new THEN "path" ELSE crop_path[d]]
    /\ to_insert' = [to_insert EXCEPT ![w] = {}]
    /\ pc' = [pc EXCEPT ![w] = "complete"]
    /\ UNCHANGED <<stage, bbox, cityVars, dropped, population, schemaVars, rolledBack, seen_ids, imageCols, db_buffer, insertLog, download_status, processing_status,
                   clothing_measurements, writer, ids_to_lock, batch, claimLog, completeLog>>

\* The insert waits for the writer lock longer than the timeout: the Error is
\* printed and the detections are dropped.
insert_detections_busy(w) ==
    /\ stage[w] = "detect" /\ pc[w] = "insert"
    /\ LockBusy(w)
    /\ to_insert' = [to_insert EXCEPT ![w] = {}]
    /\ dropped' = Dropped(to_insert[w])
    /\ pc' = [pc EXCEPT ![w] = "complete"]
    /\ UNCHANGED <<stage, bbox, cityVars, population, schemaVars, rolledBack, seen_ids, db_buffer, insertLog, dbVars, writer, ids_to_lock, batch, claimLog, completeLog>>

\* An exception inside run_consumer's try block (inference, cropping, the
\* insert): the except branch prints the error and calls
\* mark_batch_analysis_complete with the claimed ids.
detect_exception(w) ==
    /\ stage[w] = "detect" /\ pc[w] \in {"work", "insert"}
    /\ to_insert' = [to_insert EXCEPT ![w] = {}]
    /\ dropped' = Dropped(to_insert[w])
    /\ pc' = [pc EXCEPT ![w] = "complete"]
    /\ UNCHANGED <<stage, bbox, cityVars, population, schemaVars, rolledBack, seen_ids, db_buffer, insertLog, dbVars, writer, ids_to_lock, batch, claimLog, completeLog>>

\* Faulty variant of CompletedImages: the UPDATE has no WHERE clause.
CompletedImagesAll(ids) ==
    [i \in ImageIds |-> IF processing_status[i] # "absent"
                        THEN "completed" ELSE processing_status[i]]

\* Faulty variant of CompletedImages: the UPDATE writes the cities' terminal
\* value 'done'.
CompletedImagesDone(ids) ==
    [i \in ImageIds |-> IF i \in ids /\ processing_status[i] # "absent"
                        THEN "done" ELSE processing_status[i]]

\* UPDATE mapillary_images SET processing_status = 'completed' WHERE id IN (ids)
CompletedImages(ids) ==
    [i \in ImageIds |-> IF i \in ids /\ processing_status[i] # "absent"
                        THEN "completed" ELSE processing_status[i]]

\* Faulty variant of mark_batch_analysis_complete: the UPDATE runs in a
\* transaction that is left open when the call returns.
mark_batch_analysis_complete_open(w) ==
    /\ stage[w] = "detect" /\ pc[w] = "complete"
    /\ IF batch[w] = {}
       THEN UNCHANGED <<processing_status, completeLog, writer>>
       ELSE /\ LockFree
            /\ writer' = w
            /\ processing_status' = CompletedImages(batch[w])
            /\ completeLog' = [completeLog EXCEPT !.image = Logged(@, batch[w])]
    /\ batch' = [batch EXCEPT ![w] = {}]
    /\ pc' = [pc EXCEPT ![w] = "poll"]
    /\ UNCHANGED <<stage, bbox, cityVars, dropped, population, schemaVars, rolledBack, seen_ids, imageCols, db_buffer, insertLog, download_status, clothing_status, crop_path,
                   clothing_measurements, ids_to_lock, to_insert, claimLog>>

\* "if not image_ids: return", else the UPDATE in its own transaction.
mark_batch_analysis_complete(w) ==
    /\ stage[w] = "detect" /\ pc[w] = "complete"
    /\ IF batch[w] = {}
       THEN UNCHANGED <<processing_status, completeLog>>
       ELSE /\ LockFree
            /\ processing_status' = CompletedImages(batch[w])
            /\ completeLog' = [completeLog EXCEPT !.image = Logged(@, batch[w])]
    /\ batch' = [batch EXCEPT ![w] = {}]
    /\ pc' = [pc EXCEPT ![w] = "poll"]
    /\ UNCHANGED <<stage, bbox, cityVars, dropped, population, schemaVars, rolledBack, seen_ids, imageCols, db_buffer, insertLog, download_status, clothing_status, crop_path,
                   clothing_measurements, writer, ids_to_lock, to_insert, claimLog>>

\* The UPDATE times out on the writer lock: the Error is printed, nothing is
\* written and the worker goes on to its next poll.
mark_batch_analysis_complete_busy(w) ==
    /\ stage[w] = "detect" /\ pc[w] = "complete"
    /\ batch[w] # {}
    /\ LockBusy(w)
    /\ batch' = [batch EXCEPT ![w] = {}]
    /\ pc' = [pc EXCEPT ![w] = "poll"]
    /\ UNCHANGED <<stage, bbox, cityVars, dropped, population, schemaVars, rolledBack, seen_ids, db_buffer, insertLog, dbVars, writer, ids_to_lock, to_insert, claimLog, completeLog>>

\* -------------------------------------- clothing stage (detections)

\* Faulty variant of PendingDetections: the SELECT does not test crop_path.
PendingDetectionsAnyCrop ==
    {d \in DetectionIds : clothing_status[d] = "pending"}

\* WHERE clothing_status = 'pending' AND crop_path IS NOT NULL
PendingDetections ==
    {d \in DetectionIds : clothing_status[d] = "pending" /\ crop_path[d] # "null"}

claim_detections_begin(w) ==
    /\ stage[w] = "clothing" /\ pc[w] = "poll"
    /\ LockFree
    /\ writer' = w
    /\ pc' = [pc EXCEPT ![w] = "select"]
    /\ UNCHANGED <<stage, bbox, cityVars, dropped, population, schemaVars, rolledBack, seen_ids, db_buffer, insertLog, dbVars, ids_to_lock, batch, to_insert, claimLog, completeLog>>

claim_detections_busy(w) ==
    /\ stage[w] = "clothing" /\ pc[w] = "poll"
    /\ LockBusy(w)
    /\ pc' = [pc EXCEPT ![w] = "sleep"]
    /\ UNCHANGED <<stage, bbox, cityVars, dropped, population, schemaVars, rolledBack, seen_ids, db_buffer, insertLog, dbVars, writer, ids_to_lock, batch, to_insert, claimLog, completeLog>>

claim_detections_select(w) ==
    /\ stage[w] = "clothing" /\ pc[w] = "select"
    /\ \E rows \in Limit(PendingDetections, BatchSize) :
          IF rows = {}
          THEN /\ writer' = Release(w)
               /\ pc' = [pc EXCEPT ![w] = "sleep"]
               /\ UNCHANGED ids_to_lock
          ELSE /\ ids_to_lock' = [ids_to_lock EXCEPT ![w] = rows]
               /\ pc' = [pc EXCEPT ![w] = "update"]
               /\ UNCHANGED writer
    /\ UNCHANGED <<stage, bbox, cityVars, dropped, population, schemaVars, rolledBack, seen_ids, db_buffer, insertLog, dbVars, batch, to_insert, claimLog, completeLog>>

claim_detections_update(w) ==
    /\ stage[w] = "clothing" /\ pc[w] = "update"
    /\ pc' = [pc EXCEPT ![w] = "return"]
    /\ UNCHANGED <<stage, bbox, cityVars, dropped, population, schemaVars, rolledBack, seen_ids, db_buffer, insertLog, dbVars, writer, ids_to_lock, batch, to_insert, claimLog, completeLog>>

\* UPDATE mapillary_detections SET clothing_status = 'processing' WHERE id IN (ids)
ProcessingDetections(ids) ==
    [d \in DetectionIds |-> IF d \in ids THEN "processing" ELSE clothing_status[d]]

\* SELECT id, crop_path FROM mapillary_detections WHERE id IN (ids)
LockedDetections(w) == {d \in DetectionIds : d \in ids_to_lock[w]}

claim_detections_return(w) ==
    /\ stage[w] = "clothing" /\ pc[w] = "return"
    /\ clothing_status' = ProcessingDetections(Uncommitted(w))
    /\ batch' = [batch EXCEPT ![w] = LockedDetections(w)]
    /\ claimLog' = [claimLog EXCEPT !.detection = Logged(@, LockedDetections(w))]
    /\ writer' = Release(w)
    /\ ids_to_lock' = [ids_to_lock EXCEPT ![w] = {}]
    /\ pc' = [pc EXCEPT ![w] = "work"]
    /\ UNCHANGED <<stage, bbox, cityVars, dropped, population, schemaVars, rolledBack, seen_ids, imageCols, db_buffer, insertLog, download_status, processing_status, crop_path,
                   clothing_measurements, to_insert, completeLog>>

claim_detections_error(w) ==
    /\ stage[w] = "clothing" /\ pc[w] \in {"select", "update", "return"}
    /\ clothing_status' = RolledBack(clothing_status, w)
    /\ rolledBack' = [rolledBack EXCEPT ![w] = Uncommitted(w)]
    /\ writer' = Release(w)
    /\ ids_to_lock' = [ids_to_lock EXCEPT ![w] = {}]
    /\ pc' = [pc EXCEPT ![w] = "sleep"]
    /\ UNCHANGED <<stage, bbox, cityVars, dropped, population, schemaVars, seen_ids, db_buffer, insertLog, imageCols, download_status, processing_status, crop_path, clothing_measurements,
                   batch, to_insert, claimLog, completeLog>>

\* Faulty variant of clothing_work: the crops analysed are those
\* get_pending_crops selects (every detection with a crop_path), not the
\* claimed rows.
clothing_work_unclaimed(w) ==
    /\ stage[w] = "clothing" /\ pc[w] = "work"
    /\ \E vectors \in SUBSET {d \in DetectionIds : crop_path[d] # "null"} :
          /\ to_insert' = [to_insert EXCEPT ![w] = vectors]
          /\ pc' = [pc EXCEPT ![w] = IF vectors = {} THEN "complete" ELSE "insert"]
    /\ UNCHANGED <<stage, bbox, cityVars, dropped, population, schemaVars, rolledBack, seen_ids, db_buffer, insertLog, dbVars, writer, ids_to_lock, batch, claimLog, completeLog>>

\* Stage work of the clothing analyzer on a claimed batch: to_insert holds the
\* detections for which garments were measured.  Missing crop files, an empty
\* result and an exception of the stage work all lead to
\* mark_clothing_analysis_complete.
clothing_work(w) ==
    /\ stage[w] = "clothing" /\ pc[w] = "work"
    /\ \E vectors \in SUBSET batch[w] :
          /\ to_insert' = [to_insert EXCEPT ![w] = vectors]
          /\ pc' = [pc EXCEPT ![w] = IF vectors = {} THEN "complete" ELSE "insert"]
    /\ UNCHANGED <<stage, bbox, cityVars, dropped, population, schemaVars, rolledBack, seen_ids, db_buffer, insertLog, dbVars, writer, ids_to_lock, batch, claimLog, completeLog>>

insert_clothing_measurements(w) ==
    /\ stage[w] = "clothing" /\ pc[w] = "insert"
    /\ LockFree
    /\ clothing_measurements' = clothing_measurements \cup to_insert[w]
    /\ to_insert' = [to_insert EXCEPT ![w] = {}]
    /\ pc' = [pc EXCEPT ![w] = "complete"]
    /\ UNCHANGED <<stage, bbox, cityVars, dropped, population, schemaVars, rolledBack, seen_ids, imageCols, db_buffer, insertLog, download_status, processing_status, clothing_status,
                   crop_path, writer, ids_to_lock, batch, claimLog, completeLog>>

insert_clothing_measurements_busy(w) ==
    /\ stage[w] = "clothing" /\ pc[w] = "insert"
    /\ LockBusy(w)
    /\ to_insert' = [to_insert EXCEPT ![w] = {}]
    /\ pc' = [pc EXCEPT ![w] = "complete"]
    /\ UNCHANGED <<stage, bbox, cityVars, dropped, population, schemaVars, rolledBack, seen_ids, db_buffer, insertLog, dbVars, writer, ids_to_lock, batch, claimLog, completeLog>>

\* An exception inside the analyzer's try block: the except branch prints
\* the error and calls mark_clothing_analysis_complete with the claimed ids.
clothing_exception(w) ==
    /\ stage[w] = "clothing" /\ pc[w] \in {"work", "insert"}
    /\ to_insert' = [to_insert EXCEPT ![w] = {}]
    /\ pc' = [pc EXCEPT ![w] = "complete"]
    /\ UNCHANGED <<stage, bbox, cityVars, dropped, population, schemaVars, rolledBack, seen_ids, db_buffer, insertLog, dbVars, writer, ids_to_lock, batch, claimLog, completeLog>>

\* Faulty variant of CompletedDetections: the UPDATE has no WHERE clause.
CompletedDetectionsAll(ids) ==
    [d \in DetectionIds |-> IF clothing_status[d] # "absent"
                            THEN "completed" ELSE clothing_status[d]]

\* UPDATE mapillary_detections SET clothing_status = 'completed' WHERE id IN (ids)
CompletedDetections(ids) ==
    [d \in DetectionIds |-> IF d \in ids /\ clothing_status[d] # "absent"
                            THEN "completed" ELSE clothing_status[d]]

\* "if not detection_ids: return", else the UPDATE in its own transaction.
mark_clothing_analysis_complete(w) ==
    /\ stage[w] = "clothing" /\ pc[w] = "complete"
    /\ IF batch[w] = {}
       THEN UNCHANGED <<clothing_status, completeLog>>
       ELSE /\ LockFree
            /\ clothing_status' = CompletedDetections(batch[w])
            /\ completeLog' = [completeLog EXCEPT !.detection = Logged(@, batch[w])]
    /\ batch' = [batch EXCEPT ![w] = {}]
    /\ pc' = [pc EXCEPT ![w] = "poll"]
    /\ UNCHANGED <<stage, bbox, cityVars, dropped, population, schemaVars, rolledBack, seen_ids, imageCols, db_buffer, insertLog, download_status, processing_status, crop_path,
                   clothing_measurements, writer, ids_to_lock, to_insert, claimLog>>

mark_clothing_analysis_complete_busy(w) ==
    /\ stage[w] = "clothing" /\ pc[w] = "complete"
    /\ batch[w] # {}
    /\ LockBusy(w)
    /\ batch' = [batch EXCEPT ![w] = {}]
    /\ pc' = [pc EXCEPT ![w] = "poll"]
    /\ UNCHANGED <<stage, bbox, cityVars, dropped, population, schemaVars, rolledBack, seen_ids, db_buffer, insertLog, dbVars, writer, ids_to_lock, to_insert, claimLog, completeLog>>

\* ------------------------------------------ download stage (cities)

\* Faulty variant of PendingCities: WHERE download_status != 'done'
PendingOrProcessingCities == {c \in CityIds : download_status[c] # "done"}

\* Faulty variant of PendingCities: WHERE download_status != 'processing'
PendingOrDoneCities == {c \in CityIds : download_status[c] # "processing"}

\* WHERE download_status = 'pending'
PendingCities == {c \in CityIds : download_status[c] = "pending"}

\* Faulty variant of TopCity: the ORDER BY clause is left out.
TopCityUnordered(rows) == rows

\* ORDER BY population DESC LIMIT 1: a row no other matching row precedes.
TopCity(rows) == {c \in rows : \A o \in rows : population[c] >= population[o]}

get_and_lock_city_begin(w) ==
    /\ stage[w] = "download" /\ pc[w] = "poll"
    /\ LockFree
    /\ writer' = w
    /\ pc' = [pc EXCEPT ![w] = "select"]
    /\ UNCHANGED <<stage, bbox, cityVars, dropped, population, schemaVars, rolledBack, seen_ids, db_buffer, insertLog, dbVars, ids_to_lock, batch, to_insert, claimLog, completeLog>>

\* BEGIN IMMEDIATE times out: the exception is caught and None is returned.
get_and_lock_city_busy(w) ==
    /\ stage[w] = "download" /\ pc[w] = "poll"
    /\ LockBusy(w)
    /\ pc' = [pc EXCEPT ![w] = "sleep"]
    /\ UNCHANGED <<stage, bbox, cityVars, dropped, population, schemaVars, rolledBack, seen_ids, db_buffer, insertLog, dbVars, writer, ids_to_lock, batch, to_insert, claimLog, completeLog>>

get_and_lock_city_select(w) ==
    /\ stage[w] = "download" /\ pc[w] = "select"
    /\ IF PendingCities = {}
       THEN /\ writer' = Release(w)
            /\ pc' = [pc EXCEPT ![w] = "sleep"]
            /\ UNCHANGED ids_to_lock
       ELSE /\ \E row \in TopCity(PendingCities) :
                  ids_to_lock' = [ids_to_lock EXCEPT ![w] = {row}]
            /\ pc' = [pc EXCEPT ![w] = "update"]
            /\ UNCHANGED writer
    /\ UNCHANGED <<stage, bbox, cityVars, dropped, population, schemaVars, rolledBack, seen_ids, db_buffer, insertLog, dbVars, batch, to_insert, claimLog, completeLog>>

\* city['bbox'] = json.loads(city['bbox']), then the UPDATE.  A bbox that is
\* not JSON raises (get_and_lock_city_error).
get_and_lock_city_update(w) ==
    /\ stage[w] = "download" /\ pc[w] = "update"
    /\ \A c \in ids_to_lock[w] : bbox[c] = "json"
    /\ pc' = [pc EXCEPT ![w] = "return"]
    /\ UNCHANGED <<stage, bbox, cityVars, dropped, population, schemaVars, rolledBack, seen_ids, db_buffer, insertLog, dbVars, writer, ids_to_lock, batch, to_insert, claimLog, completeLog>>

\* UPDATE cities SET download_status = 'processing' WHERE id = ?
ProcessingCities(ids) ==
    [c \in CityIds |-> IF c \in ids THEN "processing" ELSE download_status[c]]

\* "return city": the row fetched by the SELECT; the commit of the block.
\* SELECT image_id FROM mapillary_images WHERE city_id = ?
get_existing_image_ids(cities) ==
    {image_id[i] : i \in {r \in ImageIds : image_id[r] # 0 /\ city_id[r] \in cities}}

\* The claim commits and returns the city; process_city starts by reading the
\* image ids the store holds for it into seen_ids.
get_and_lock_city_return(w) ==
    /\ stage[w] = "download" /\ pc[w] = "return"
    /\ download_status' = ProcessingCities(Uncommitted(w))
    /\ batch' = [batch EXCEPT ![w] = ids_to_lock[w]]
    /\ claimLog' = [claimLog EXCEPT !.city = Logged(@, ids_to_lock[w])]
    /\ writer' = Release(w)
    /\ ids_to_lock' = [ids_to_lock EXCEPT ![w] = {}]
    /\ seen_ids' = [seen_ids EXCEPT ![w] = get_existing_image_ids(ids_to_lock[w])]
    /\ pc' = [pc EXCEPT ![w] = "work"]
    /\ UNCHANGED <<stage, bbox, cityVars, dropped, population, schemaVars, rolledBack, imageCols, db_buffer, insertLog, processing_status, clothing_status, crop_path,
                   clothing_measurements, to_insert, completeLog>>

\* Any exception inside the transaction (a store error, a bbox that is not
\* JSON): rollback, None is returned.
get_and_lock_city_error(w) ==
    /\ stage[w] = "download" /\ pc[w] \in {"select", "update", "return"}
    /\ download_status' = RolledBack(download_status, w)
    /\ rolledBack' = [rolledBack EXCEPT ![w] = Uncommitted(w)]
    /\ writer' = Release(w)
    /\ ids_to_lock' = [ids_to_lock EXCEPT ![w] = {}]
    /\ pc' = [pc EXCEPT ![w] = "sleep"]
    /\ UNCHANGED <<stage, bbox, cityVars, dropped, population, schemaVars, seen_ids, db_buffer, insertLog, imageCols, processing_status, clothing_status, crop_path, clothing_measurements,
                   batch, to_insert, claimLog, completeLog>>

\* The mapillary_images table as one value.
ImagesTable ==
    [image_id |-> image_id, city_id |-> city_id, file_path |-> file_path,
     processing_status |-> processing_status]

\* The row of table t that holds external image id e, if any.
RowsOf(t, e) == {i \in ImageIds : t.processing_status[i] # "absent" /\ t.image_id[i] = e}

\* Faulty variant of InsertedImages: INSERT OR REPLACE, the conflicting row
\* takes the values of the new record.
RECURSIVE InsertedImagesReplace(_, _)
InsertedImagesReplace(t, records) ==
    IF records = <<>> THEN t
    ELSE LET r == Head(records)
             free == {i \in ImageIds : t.processing_status[i] = "absent"}
             i == IF RowsOf(t, r.image_id) # {}
                  THEN CHOOSE x \in RowsOf(t, r.image_id) : TRUE
                  ELSE CHOOSE x \in free : \A y \in free : x <= y
         IN  InsertedImagesReplace(
                [image_id |-> [t.image_id EXCEPT ![i] = r.image_id],
                 city_id |-> [t.city_id EXCEPT ![i] = r.city_id],
                 file_path |-> [t.file_path EXCEPT ![i] = r.file_path],
                 processing_status |-> [t.processing_status EXCEPT ![i] = "pending"]],
                Tail(records))

\* executemany(INSERT ... VALUES (..., 'pending') ON CONFLICT(image_id) DO
\* NOTHING, records): the records are inserted one after the other; a record
\* whose image_id is already in the table is skipped, any other one becomes a
\* new row with the next AUTOINCREMENT id and status 'pending'.
RECURSIVE InsertedImages(_, _)
InsertedImages(t, records) ==
    IF records = <<>> THEN t
    ELSE LET r == Head(records)
             free == {i \in ImageIds : t.processing_status[i] = "absent"}
         IN  IF RowsOf(t, r.image_id) # {}
             THEN InsertedImages(t, Tail(records))
             ELSE LET i == CHOOSE x \in free : \A y \in free : x <= y
                  IN  InsertedImages(
                         [image_id |-> [t.image_id EXCEPT ![i] = r.image_id],
                          city_id |-> [t.city_id EXCEPT ![i] = r.city_id],
                          file_path |-> [t.file_path EXCEPT ![i] = r.file_path],
                          processing_status |-> [t.processing_status EXCEPT ![i] = "pending"]],
                         Tail(records))

\* insert_image_records_batch(conn, records): returns at once for an empty
\* list; otherwise one transaction inserts the records.  When the writer lock
\* is not obtained the Error is printed and nothing is inserted.
insert_image_records_batch(records) ==
    /\ insertLog' = IF insertLog.on THEN [on |-> TRUE, records |-> records] ELSE insertLog
    /\ IF records # <<>> /\ LockFree
       THEN LET t == InsertedImages(ImagesTable, records)
            IN  /\ image_id' = t.image_id
                /\ city_id' = t.city_id
                /\ file_path' = t.file_path
                /\ processing_status' = t.processing_status
       ELSE UNCHANGED <<imageCols, processing_status>>

\* External image ids a scan of the worker's city can still put on the image
\* queue: those not in seen_ids.  An id that is a row of another city
\* (overlapping tiles) can be found again.
Unseen(w) == ImageIds \ seen_ids[w]

\* The next item of the image queue: the scan yields the images of the tiles
\* in increasing id order.
Discoverable(w) ==
    {e \in Unseen(w) : \A o \in Unseen(w) : e <= o}

\* worker_downloader handles one item of the image queue: the image is
\* downloaded and its record appended to db_buffer; a buffer that has reached
\* DB_BATCH_SIZE is inserted and emptied.
worker_downloader(w) ==
    /\ stage[w] = "download" /\ pc[w] = "work"
    /\ \E c \in batch[w] : \E e \in Discoverable(w) :
          LET buffer == Append(db_buffer[w], Record(c, e))
          IN  IF Len(buffer) >= DB_BATCH_SIZE
              THEN /\ LockFree
                   /\ insert_image_records_batch(buffer)
                   /\ db_buffer' = [db_buffer EXCEPT ![w] = <<>>]
              ELSE /\ db_buffer' = [db_buffer EXCEPT ![w] = buffer]
                   /\ UNCHANGED <<imageCols, processing_status, insertLog>>
    /\ seen_ids' = [seen_ids EXCEPT ![w] = @ \cup Discoverable(w)]
    /\ UNCHANGED <<stage, bbox, cityVars, dropped, population, schemaVars, rolledBack, download_status, clothing_status, crop_path,
                   clothing_measurements, writer, pc, ids_to_lock, batch, to_insert,
                   claimLog, completeLog>>

\* The same, the insert timing out on the writer lock: the buffer is emptied
\* all the same and its records are in no row.
worker_downloader_busy(w) ==
    /\ stage[w] = "download" /\ pc[w] = "work"
    /\ LockBusy(w)
    /\ \E c \in batch[w] : \E e \in Discoverable(w) :
          LET buffer == Append(db_buffer[w], Record(c, e))
          IN  /\ Len(buffer) >= DB_BATCH_SIZE
              /\ insert_image_records_batch(buffer)
              /\ db_buffer' = [db_buffer EXCEPT ![w] = <<>>]
    /\ seen_ids' = [seen_ids EXCEPT ![w] = @ \cup Discoverable(w)]
    /\ UNCHANGED <<stage, bbox, cityVars, dropped, population, schemaVars, rolledBack, download_status, clothing_status, crop_path,
                   clothing_measurements, writer, pc, ids_to_lock, batch, to_insert,
                   claimLog, completeLog>>

\* process_city has gathered its scanner tasks and sent the sentinel: the
\* downloader inserts what is left in its buffer and ends; process_city goes
\* on to mark the city.
process_city_done(w) ==
    /\ stage[w] = "download" /\ pc[w] = "work"
    /\ db_buffer[w] = <<>> \/ LockFree
    /\ IF db_buffer[w] # <<>>
       THEN insert_image_records_batch(db_buffer[w])
       ELSE UNCHANGED <<imageCols, processing_status, insertLog>>
    /\ db_buffer' = [db_buffer EXCEPT ![w] = <<>>]
    /\ seen_ids' = [seen_ids EXCEPT ![w] = {}]
    /\ pc' = [pc EXCEPT ![w] = "complete"]
    /\ UNCHANGED <<stage, bbox, cityVars, dropped, population, schemaVars, rolledBack, download_status, clothing_status, crop_path,
                   clothing_measurements, writer, ids_to_lock, batch, to_insert,
                   claimLog, completeLog>>

\* The same, the last insert timing out on the writer lock.
process_city_done_busy(w) ==
    /\ stage[w] = "download" /\ pc[w] = "work"
    /\ db_buffer[w] # <<>> /\ LockBusy(w)
    /\ insert_image_records_batch(db_buffer[w])
    /\ db_buffer' = [db_buffer EXCEPT ![w] = <<>>]
    /\ seen_ids' = [seen_ids EXCEPT ![w] = {}]
    /\ pc' = [pc EXCEPT ![w] = "complete"]
    /\ UNCHANGED <<stage, bbox, cityVars, dropped, population, schemaVars, rolledBack, download_status, clothing_status, crop_path,
                   clothing_measurements, writer, ids_to_lock, batch, to_insert,
                   claimLog, completeLog>>

\* Faulty variant of process_city_exception: the exception leaves main's loop
\* and the process ends.
process_city_uncaught(w) ==
    /\ stage[w] = "download" /\ pc[w] = "work"
    /\ batch' = [batch EXCEPT ![w] = {}]
    /\ db_buffer' = [db_buffer EXCEPT ![w] = <<>>]
    /\ seen_ids' = [seen_ids EXCEPT ![w] = {}]
    /\ pc' = [pc EXCEPT ![w] = "exited"]
    /\ UNCHANGED <<stage, bbox, cityVars, dropped, population, schemaVars, rolledBack, insertLog, dbVars, writer, ids_to_lock, to_insert, claimLog, completeLog>>

\* process_city raises: main prints CRITICAL FAILURE, sleeps 5 s ("failed")
\* and polls again; mark_city_download_complete is not reached.
process_city_exception(w) ==
    /\ stage[w] = "download" /\ pc[w] = "work"
    /\ batch' = [batch EXCEPT ![w] = {}]
    /\ db_buffer' = [db_buffer EXCEPT ![w] = <<>>]
    /\ seen_ids' = [seen_ids EXCEPT ![w] = {}]
    /\ pc' = [pc EXCEPT ![w] = "failed"]
    /\ UNCHANGED <<stage, bbox, cityVars, dropped, population, schemaVars, rolledBack, insertLog, dbVars, writer, ids_to_lock, to_insert, claimLog, completeLog>>

\* UPDATE cities SET download_status = 'done' WHERE id = city_id
DoneCities(ids) ==
    [c \in CityIds |-> IF c \in ids THEN "done" ELSE download_status[c]]

\* Faulty variant of mark_city_download_complete: the call also marks the
\* city's images as analysed.
mark_city_download_complete_images(w) ==
    /\ stage[w] = "download" /\ pc[w] = "complete"
    /\ LockFree
    /\ download_status' = DoneCities(batch[w])
    /\ processing_status' =
          [i \in ImageIds |-> IF city_id[i] \in batch[w] THEN "completed"
                              ELSE processing_status[i]]
    /\ completeLog' = [completeLog EXCEPT !.city = Logged(@, batch[w])]
    /\ batch' = [batch EXCEPT ![w] = {}]
    /\ pc' = [pc EXCEPT ![w] = "poll"]
    /\ UNCHANGED <<stage, bbox, cityVars, dropped, population, schemaVars, rolledBack, seen_ids, imageCols, db_buffer, insertLog, clothing_status, crop_path,
                   clothing_measurements, writer, ids_to_lock, to_insert, claimLog>>

mark_city_download_complete(w) ==
    /\ stage[w] = "download" /\ pc[w] = "complete"
    /\ LockFree
    /\ download_status' = DoneCities(batch[w])
    /\ completeLog' = [completeLog EXCEPT !.city = Logged(@, batch[w])]
    /\ batch' = [batch EXCEPT ![w] = {}]
    /\ pc' = [pc EXCEPT ![w] = "poll"]
    /\ UNCHANGED <<stage, bbox, cityVars, dropped, population, schemaVars, rolledBack, seen_ids, imageCols, db_buffer, insertLog, processing_status, clothing_status, crop_path,
                   clothing_measurements, writer, ids_to_lock, to_insert, claimLog>>

mark_city_download_complete_busy(w) ==
    /\ stage[w] = "download" /\ pc[w] = "complete"
    /\ LockBusy(w)
    /\ batch' = [batch EXCEPT ![w] = {}]
    /\ pc' = [pc EXCEPT ![w] = "poll"]
    /\ UNCHANGED <<stage, bbox, cityVars, dropped, population, schemaVars, rolledBack, seen_ids, db_buffer, insertLog, dbVars, writer, ids_to_lock, to_insert, claimLog, completeLog>>

\* ------------------------------------------------------ every process

\* time.sleep(..); continue
wake(w) ==
    /\ pc[w] \in {"sleep", "failed"}
    /\ pc' = [pc EXCEPT ![w] = "poll"]
    /\ rolledBack' = [rolledBack EXCEPT ![w] = {}]
    /\ UNCHANGED <<stage, bbox, cityVars, dropped, population, schemaVars, seen_ids, db_buffer, insertLog, dbVars, writer, ids_to_lock, batch, to_insert, claimLog, completeLog>>

\* The process is terminated (the swarm launcher's signal handler, a kill):
\* its open transaction is rolled back, its lock is released, and what it had
\* claimed is never completed.  batch keeps what the dead process held.
crash(w) ==
    /\ pc[w] # "crashed"
    /\ writer' = Release(w)
    /\ ids_to_lock' = [ids_to_lock EXCEPT ![w] = {}]
    /\ to_insert' = [to_insert EXCEPT ![w] = {}]
    /\ db_buffer' = [db_buffer EXCEPT ![w] = <<>>]
    /\ seen_ids' = [seen_ids EXCEPT ![w] = {}]
    /\ pc' = [pc EXCEPT ![w] = "crashed"]
    /\ UNCHANGED <<stage, bbox, cityVars, dropped, population, schemaVars, rolledBack, insertLog, dbVars, batch, claimLog, completeLog>>

Next ==
    \E w \in Workers :
        \/ claim_batch_begin(w)
        \/ claim_batch_busy(w)
        \/ claim_batch_select(w)
        \/ claim_batch_update(w)
        \/ claim_batch_return(w)
        \/ claim_batch_error(w)
        \/ detect_work(w)
        \/ insert_detections_batch(w)
        \/ insert_detections_busy(w)
        \/ detect_exception(w)
        \/ mark_batch_analysis_complete(w)
        \/ mark_batch_analysis_complete_busy(w)
        \/ claim_detections_begin(w)
        \/ claim_detections_busy(w)
        \/ claim_detections_select(w)
        \/ claim_detections_update(w)
        \/ claim_detections_return(w)
        \/ claim_detections_error(w)
        \/ clothing_work(w)
        \/ insert_clothing_measurements(w)
        \/ insert_clothing_measurements_busy(w)
        \/ clothing_exception(w)
        \/ mark_clothing_analysis_complete(w)
        \/ mark_clothing_analysis_complete_busy(w)
        \/ get_and_lock_city_begin(w)
        \/ get_and_lock_city_busy(w)
        \/ get_and_lock_city_select(w)
        \/ get_and_lock_city_update(w)
        \/ get_and_lock_city_return(w)
        \/ get_and_lock_city_error(w)
        \/ worker_downloader(w)
        \/ worker_downloader_busy(w)
        \/ process_city_done(w)
        \/ process_city_done_busy(w)
        \/ process_city_exception(w)
        \/ mark_city_download_complete(w)
        \/ mark_city_download_complete_busy(w)
        \/ wake(w)
        \/ crash(w)

Spec == Init /\ [][Next]_vars

\* ------------------------------------------------------------------------
\* The detection workers alone, over a store of pending images, with the
\* history of the detections a worker produced and did not insert.

InitDetect ==
    /\ stage = [w \in Workers |-> "detect"]
    /\ population = [c \in CityIds |-> 1]
    /\ download_status = [c \in CityIds |-> "pending"]
    /\ processing_status = [i \in ImageIds |-> "pending"]
    /\ image_id = [i \in ImageIds |-> i]
    /\ city_id = [i \in ImageIds |-> FirstCityOf(i)]
    /\ file_path = [i \in ImageIds |-> PathOf(FirstCityOf(i), i)]
    /\ clothing_status = [d \in DetectionIds |-> "absent"]
    /\ crop_path = [d \in DetectionIds |-> "null"]
    /\ clothing_measurements = {}
    /\ writer = 0
    /\ pc = [w \in Workers |-> "poll"]
    /\ ids_to_lock = [w \in Workers |-> {}]
    /\ batch = [w \in Workers |-> {}]
    /\ to_insert = [w \in Workers |-> {}]
    /\ claimLog = NoLog
    /\ completeLog = NoLog
    /\ db_buffer = NoBuffer
    /\ seen_ids = NoSeen
    /\ dropped = [on |-> TRUE, images |-> {}]
    /\ NoTasks
    /\ bbox = ParsableBbox
    /\ insertLog = NoInsertLog
    /\ SchemaReady

NextDetect ==
    \E w \in Workers :
        \/ claim_batch_begin(w)
        \/ claim_batch_busy(w)
        \/ claim_batch_select(w)
        \/ claim_batch_update(w)
        \/ claim_batch_return(w)
        \/ claim_batch_error(w)
        \/ detect_work(w)
        \/ insert_detections_batch(w)
        \/ insert_detections_busy(w)
        \/ detect_exception(w)
        \/ mark_batch_analysis_complete(w)
        \/ mark_batch_analysis_complete_busy(w)

SpecDetect == InitDetect /\ [][NextDetect]_vars

\* ------------------------------------------------------------------------
\* The workers as they run unattended: no process is terminated, every
\* process goes on executing its loop (an operating-system process that is
\* runnable is scheduled), and a call that asks for the writer lock obtains it
\* if the lock is free again and again when it asks.

\* Calls of process w that begin a write transaction.
Acquire(w) ==
    \/ claim_batch_begin(w)
    \/ insert_detections_batch(w)
    \/ mark_batch_analysis_complete(w)
    \/ claim_detections_begin(w)
    \/ insert_clothing_measurements(w)
    \/ mark_clothing_analysis_complete(w)
    \/ get_and_lock_city_begin(w)
    \/ mark_city_download_complete(w)

\* Every step of process w but its death.
Step(w) ==
    \/ claim_batch_begin(w)
    \/ claim_batch_busy(w)
    \/ claim_batch_select(w)
    \/ claim_batch_update(w)
    \/ claim_batch_return(w)
    \/ claim_batch_error(w)
    \/ detect_work(w)
    \/ insert_detections_batch(w)
    \/ insert_detections_busy(w)
    \/ detect_exception(w)
    \/ mark_batch_analysis_complete(w)
    \/ mark_batch_analysis_complete_busy(w)
    \/ claim_detections_begin(w)
    \/ claim_detections_busy(w)
    \/ claim_detections_select(w)
    \/ claim_detections_update(w)
    \/ claim_detections_return(w)
    \/ claim_detections_error(w)
    \/ clothing_work(w)
    \/ insert_clothing_measurements(w)
    \/ insert_clothing_measurements_busy(w)
    \/ clothing_exception(w)
    \/ mark_clothing_analysis_complete(w)
    \/ mark_clothing_analysis_complete_busy(w)
    \/ get_and_lock_city_begin(w)
    \/ get_and_lock_city_busy(w)
    \/ get_and_lock_city_select(w)
    \/ get_and_lock_city_update(w)
    \/ get_and_lock_city_return(w)
    \/ get_and_lock_city_error(w)
    \/ worker_downloader(w)
    \/ worker_downloader_busy(w)
    \/ process_city_done(w)
    \/ process_city_done_busy(w)
    \/ process_city_exception(w)
    \/ mark_city_download_complete(w)
    \/ mark_city_download_complete_busy(w)
    \/ wake(w)

InitLive ==
    /\ Init
    /\ population = [c \in CityIds |-> 1]
    /\ crop_path = [d \in DetectionIds |-> IF clothing_status[d] = "absent" THEN "null" ELSE "path"]

NextLive == \E w \in Workers : Step(w)

SpecLive ==
    /\ InitLive
    /\ [][NextLive]_vars
    /\ \A w \in Workers : WF_vars(Step(w))
    /\ \A w \in Workers : SF_vars(Acquire(w))

\* ------------------------------------------------------------------------
\* The downloaders as they run unattended over cities whose bbox may be text
\* that is not JSON.  No process is terminated, every process goes on
\* executing its loop, and a statement of the claim that can succeed again and
\* again does succeed: an error that is not caused by the data does not
\* recur for ever.

\* Every step of downloader process w but its death.
StepDownload(w) ==
    \/ get_and_lock_city_begin(w)
    \/ get_and_lock_city_busy(w)
    \/ get_and_lock_city_select(w)
    \/ get_and_lock_city_update(w)
    \/ get_and_lock_city_return(w)
    \/ get_and_lock_city_error(w)
    \/ worker_downloader(w)
    \/ worker_downloader_busy(w)
    \/ process_city_done(w)
    \/ process_city_done_busy(w)
    \/ process_city_exception(w)
    \/ mark_city_download_complete(w)
    \/ mark_city_download_complete_busy(w)
    \/ wake(w)

InitClaim ==
    /\ stage = [w \in Workers |-> "download"]
    /\ population \in [CityIds -> 1..MaxPopulation]
    /\ bbox \in [CityIds -> {"json", "text"}]
    /\ download_status = [c \in CityIds |-> "pending"]
    /\ processing_status = [i \in ImageIds |-> "absent"]
    /\ image_id = [i \in ImageIds |-> 0]
    /\ city_id = [i \in ImageIds |-> 0]
    /\ file_path = [i \in ImageIds |-> <<>>]
    /\ clothing_status = [d \in DetectionIds |-> "absent"]
    /\ crop_path = [d \in DetectionIds |-> "null"]
    /\ clothing_measurements = {}
    /\ writer = 0
    /\ pc = [w \in Workers |-> "poll"]
    /\ ids_to_lock = [w \in Workers |-> {}]
    /\ batch = [w \in Workers |-> {}]
    /\ to_insert = [w \in Workers |-> {}]
    /\ claimLog = NoLog
    /\ completeLog = NoLog
    /\ db_buffer = NoBuffer
    /\ seen_ids = NoSeen
    /\ dropped = NoDropped
    /\ NoTasks
    /\ insertLog = NoInsertLog
    /\ SchemaReady

NextClaim == \E w \in Workers : StepDownload(w)

SpecClaim ==
    /\ InitClaim
    /\ [][NextClaim]_vars
    /\ \A w \in Workers : WF_vars(StepDownload(w))
    /\ \A w \in Workers : SF_vars(get_and_lock_city_begin(w))
    /\ \A w \in Workers : SF_vars(get_and_lock_city_select(w))
    /\ \A w \in Workers : SF_vars(get_and_lock_city_update(w))
    /\ \A w \in Workers : SF_vars(get_and_lock_city_return(w))

\* ------------------------------------------------------------------------
\* The complete operations on their own: any table contents, any identifier
\* list (the empty list and identifiers of no row included), with the writer
\* lock free or held by another connection.  Worker 1 is the caller.
InitComplete ==
    /\ \E s \in {"detect", "clothing"} : stage = [w \in Workers |-> s]
    /\ population = [c \in CityIds |-> 1]
    /\ download_status = [c \in CityIds |-> "pending"]
    /\ \E k \in 0..NumImages :
          /\ processing_status \in [ImageIds -> RowStatus \cup {"absent"}]
          /\ \A i \in ImageIds : processing_status[i] = "absent" <=> i > k
          /\ image_id = [i \in ImageIds |-> IF i <= k THEN i ELSE 0]
          /\ city_id = [i \in ImageIds |-> IF i <= k THEN FirstCityOf(i) ELSE 0]
          /\ file_path = [i \in ImageIds |-> IF i <= k THEN PathOf(FirstCityOf(i), i) ELSE <<>>]
    /\ \E k \in 0..NumDetections :
          /\ clothing_status \in [DetectionIds -> RowStatus \cup {"absent"}]
          /\ \A d \in DetectionIds : clothing_status[d] = "absent" <=> d > k
    /\ crop_path = [d \in DetectionIds |-> IF clothing_status[d] = "absent"
                                           THEN "null" ELSE "path"]
    /\ clothing_measurements = {}
    /\ writer \in {0, NumWorkers}
    /\ pc = [w \in Workers |-> IF w = 1 THEN "complete"
                               ELSE IF w = writer THEN "select" ELSE "poll"]
    /\ ids_to_lock = [w \in Workers |-> {}]
    /\ \E ids \in SUBSET (IF stage[1] = "detect" THEN ImageIds ELSE DetectionIds) :
          batch = [w \in Workers |-> IF w = 1 THEN ids ELSE {}]
    /\ to_insert = [w \in Workers |-> {}]
    /\ claimLog = NoLog
    /\ completeLog = NoLog
    /\ db_buffer = NoBuffer
    /\ seen_ids = NoSeen
    /\ dropped = NoDropped
    /\ NoTasks
    /\ bbox = ParsableBbox
    /\ insertLog = NoInsertLog
    /\ SchemaReady

NextComplete ==
    \E w \in Workers :
        \/ mark_batch_analysis_complete(w)
        \/ mark_batch_analysis_complete_busy(w)
        \/ mark_clothing_analysis_complete(w)
        \/ mark_clothing_analysis_complete_busy(w)

SpecComplete == InitComplete /\ [][NextComplete]_vars

\* ------------------------------------------------------------------------
\* insert_image_records_batch on its own: any table contents (rows of any
\* city in any status), any list of records (records of stored image ids and
\* the same image id twice in one list included), with the writer lock free or
\* held by another connection.

\* The lists of records a caller can pass.
RecordLists ==
    LET R == {Record(c, e) : c \in CityIds, e \in ImageIds}
    IN  UNION {[1..n -> R] : n \in 0..DB_BATCH_SIZE}

InitInsert ==
    /\ stage = [w \in Workers |-> "download"]
    /\ population = [c \in CityIds |-> 1]
    /\ download_status = [c \in CityIds |-> "processing"]
    /\ \E k \in 0..NumImages :
          /\ processing_status \in [ImageIds -> RowStatus \cup {"absent"}]
          /\ \A i \in ImageIds : processing_status[i] = "absent" <=> i > k
          /\ image_id = [i \in ImageIds |-> IF i <= k THEN i ELSE 0]
          /\ city_id \in [ImageIds -> CityIds \cup {0}]
          /\ \A i \in ImageIds : city_id[i] = 0 <=> i > k
    /\ file_path = [i \in ImageIds |-> IF processing_status[i] = "absent" THEN <<>>
                                       ELSE PathOf(city_id[i], image_id[i])]
    /\ clothing_status = [d \in DetectionIds |-> "absent"]
    /\ crop_path = [d \in DetectionIds |-> "null"]
    /\ clothing_measurements = {}
    /\ writer \in {0, NumWorkers}
    /\ pc = [w \in Workers |-> IF w = writer THEN "select" ELSE "poll"]
    /\ ids_to_lock = [w \in Workers |-> {}]
    /\ batch = [w \in Workers |-> {}]
    /\ to_insert = [w \in Workers |-> {}]
    /\ claimLog = NoLog
    /\ completeLog = NoLog
    /\ db_buffer = NoBuffer
    /\ seen_ids = NoSeen
    /\ dropped = NoDropped
    /\ NoTasks
    /\ bbox = ParsableBbox
    /\ insertLog = [on |-> TRUE, records |-> <<>>]
    /\ SchemaReady

\* A caller passes a list of records to insert_image_records_batch.
call_insert_image_records_batch ==
    /\ \E records \in RecordLists : insert_image_records_batch(records)
    /\ UNCHANGED <<stage, bbox, cityVars, dropped, population, schemaVars, rolledBack, seen_ids, download_status, clothing_status, crop_path,
                   clothing_measurements, writer, pc, ids_to_lock, batch, to_insert,
                   claimLog, completeLog, db_buffer>>

NextInsert == call_insert_image_records_batch

SpecInsert == InitInsert /\ [][NextInsert]_vars

\* ------------------------------------------------------------------------
\* create_tables: the processes start on one store and each runs create_tables
\* statement by statement (every statement is its own transaction).  The
\* store starts fresh, or from an earlier version that lacks some of the
\* tables and of the migrated columns.

\* The tables and columns of table_ that the store holds by the statement
\* CREATE TABLE IF NOT EXISTS, which creates them only if the table is absent.
CreateIfNotExists(table, cols) ==
    [o \in Objects |-> IF schema[table] = 0 /\ o \in {table} \cup cols THEN 1
                       ELSE schema[o]]

\* Faulty variant of TableInfo: the column list comes back empty.
TableInfoEmpty(cols) == {}

\* PRAGMA table_info(table): the names of the columns the table holds.
TableInfo(cols) == {c \in cols : schema[c] >= 1}

\* ALTER TABLE .. ADD COLUMN col, for a column the table does not hold.
AddColumn(col) == [schema EXCEPT ![col] = 1]

\* A statement of create_tables that leaves everything but the schema alone.
SchemaStep(w, to) ==
    /\ pc' = [pc EXCEPT ![w] = to]
    /\ UNCHANGED <<stage, bbox, cityVars, dropped, population, dbVars, writer, ids_to_lock, batch, to_insert,
                   claimLog, completeLog, db_buffer, insertLog, rolledBack, seen_ids>>

create_cities(w) ==
    /\ pc[w] = "create_cities"
    /\ schema' = CreateIfNotExists("cities", {})
    /\ sequential' = [sequential EXCEPT ![w] = \E v \in Workers : pc[v] = "poll"]
    /\ SchemaStep(w, "create_images")
    /\ UNCHANGED <<columns, alters>>

create_images(w) ==
    /\ pc[w] = "create_images"
    /\ schema' = CreateIfNotExists("mapillary_images", {"processing_status"})
    /\ SchemaStep(w, "table_info_images")
    /\ UNCHANGED <<columns, sequential, alters>>

\* PRAGMA table_info and the test of the column list that follows it.
table_info_images(w) ==
    /\ pc[w] = "table_info_images"
    /\ columns' = [columns EXCEPT ![w] = TableInfo({"processing_status"})]
    /\ SchemaStep(w, IF "processing_status" \in TableInfo({"processing_status"})
                     THEN "create_detections" ELSE "alter_processing_status")
    /\ UNCHANGED <<schema, sequential, alters>>

\* ALTER TABLE .. ADD COLUMN: "duplicate column name" is raised when the
\* column exists by now; nothing catches it and the process ends.
alter_table(w, at, col, to) ==
    /\ pc[w] = at
    /\ IF schema[col] >= 1
       THEN /\ SchemaStep(w, "error")
            /\ UNCHANGED <<schema, alters>>
       ELSE /\ schema' = AddColumn(col)
            /\ alters' = [alters EXCEPT ![w] = @ \cup {col}]
            /\ SchemaStep(w, to)
    /\ UNCHANGED <<columns, sequential>>

alter_processing_status(w) ==
    alter_table(w, "alter_processing_status", "processing_status", "create_detections")

create_detections(w) ==
    /\ pc[w] = "create_detections"
    /\ schema' = CreateIfNotExists("mapillary_detections", {"crop_path"})
    /\ SchemaStep(w, "table_info_detections")
    /\ UNCHANGED <<columns, sequential, alters>>

table_info_detections(w) ==
    /\ pc[w] = "table_info_detections"
    /\ columns' = [columns EXCEPT ![w] = TableInfo({"crop_path", "clothing_status"})]
    /\ SchemaStep(w, IF "crop_path" \in TableInfo({"crop_path", "clothing_status"})
                     THEN "create_measurements" ELSE "alter_crop_path")
    /\ UNCHANGED <<schema, sequential, alters>>

alter_crop_path(w) ==
    alter_table(w, "alter_crop_path", "crop_path", "create_measurements")

create_measurements(w) ==
    /\ pc[w] = "create_measurements"
    /\ schema' = CreateIfNotExists("clothing_measurements", {})
    /\ SchemaStep(w, "table_info_clothing")
    /\ UNCHANGED <<columns, sequential, alters>>

table_info_clothing(w) ==
    /\ pc[w] = "table_info_clothing"
    /\ columns' = [columns EXCEPT ![w] = TableInfo({"crop_path", "clothing_status"})]
    /\ SchemaStep(w, IF "clothing_status" \in TableInfo({"crop_path", "clothing_status"})
                     THEN "poll" ELSE "alter_clothing_status")
    /\ UNCHANGED <<schema, sequential, alters>>

alter_clothing_status(w) ==
    alter_table(w, "alter_clothing_status", "clothing_status", "create_index")

\* CREATE INDEX IF NOT EXISTS idx_clothing_status, the last statement.
create_index(w) ==
    /\ pc[w] = "create_index"
    /\ schema' = [schema EXCEPT !["idx_clothing_status"] = 1]
    /\ SchemaStep(w, "poll")
    /\ UNCHANGED <<columns, sequential, alters>>

\* The stores a process can start on: a table of an earlier version lacks the
\* columns added since, and clothing_status exists only where a migration
\* added it.
InitSchema ==
    /\ stage = [w \in Workers |-> "detect"]
    /\ population = [c \in CityIds |-> 1]
    /\ download_status = [c \in CityIds |-> "pending"]
    /\ processing_status = [i \in ImageIds |-> "absent"]
    /\ image_id = [i \in ImageIds |-> 0]
    /\ city_id = [i \in ImageIds |-> 0]
    /\ file_path = [i \in ImageIds |-> <<>>]
    /\ clothing_status = [d \in DetectionIds |-> "absent"]
    /\ crop_path = [d \in DetectionIds |-> "null"]
    /\ clothing_measurements = {}
    /\ writer = 0
    /\ pc = [w \in Workers |-> "create_cities"]
    /\ ids_to_lock = [w \in Workers |-> {}]
    /\ batch = [w \in Workers |-> {}]
    /\ to_insert = [w \in Workers |-> {}]
    /\ claimLog = NoLog
    /\ completeLog = NoLog
    /\ db_buffer = NoBuffer
    /\ seen_ids = NoSeen
    /\ dropped = NoDropped
    /\ NoTasks
    /\ bbox = ParsableBbox
    /\ insertLog = NoInsertLog
    /\ schema \in [Objects -> {0, 1}]
    /\ schema["processing_status"] = 1 => schema["mapillary_images"] = 1
    /\ schema["crop_path"] = 1 => schema["mapillary_detections"] = 1
    /\ schema["clothing_status"] = 1 => schema["mapillary_detections"] = 1
    /\ schema["idx_clothing_status"] = 1 => schema["clothing_status"] = 1
    /\ columns = [w \in Workers |-> {}]
    /\ sequential = [w \in Workers |-> FALSE]
    /\ alters = [w \in Workers |-> {}]
    /\ rolledBack = [w \in Workers |-> {}]

NextSchema ==
    \E w \in Workers :
        \/ create_cities(w)
        \/ create_images(w)
        \/ table_info_images(w)
        \/ alter_processing_status(w)
        \/ create_detections(w)
        \/ table_info_detections(w)
        \/ alter_crop_path(w)
        \/ create_measurements(w)
        \/ table_info_clothing(w)
        \/ alter_clothing_status(w)
        \/ create_index(w)

SpecSchema == InitSchema /\ [][NextSchema]_vars

\* ------------------------------------------------------------------------
\* One run of process_city, task by task: the downloader process CityWorker
\* has claimed a city; its scanner tasks take tiles from tile_queue and put
\* new images on the bounded image_queue, its downloader tasks take images
\* from image_queue, buffer their records and insert them.  The tasks run on
\* one event loop: a step is what a task does between two awaits.

CityWorker == 1

\* What fetch_images_in_tile can return for a tile: a list of images, empty
\* on an API error.
TileResults ==
    UNION {[1..n -> ImageIds] : n \in 0..MaxTileImages}

\* process_city up to its first await: seen_ids from the store, the tile
\* queue filled, the scanner and downloader tasks created.
process_city_start ==
    /\ stage[CityWorker] = "download" /\ pc[CityWorker] = "work"
    /\ process_city.pc = "none"
    /\ seen_ids' = [seen_ids EXCEPT ![CityWorker] = get_existing_image_ids(batch[CityWorker])]
    /\ tile_queue' \in 0..NumTiles
    /\ scanner_tasks' = [k \in Scanners |-> [pc |-> "get", images |-> <<>>, img |-> None]]
    /\ downloader_tasks' = [k \in Downloaders |-> [pc |-> "get", item |-> None, db_buffer |-> <<>>]]
    /\ process_city' = [pc |-> "gather_scanners", sentinels |-> 0,
                        existing_ids |-> get_existing_image_ids(batch[CityWorker])]
    /\ UNCHANGED <<stage, bbox, population, schemaVars, rolledBack, dbVars, writer, pc, ids_to_lock,
                   batch, to_insert, claimLog, completeLog, db_buffer, insertLog, image_queue,
                   cityLog, dropped>>

\* What no task of process_city touches.
cityFrame ==
    <<stage, bbox, dropped, population, schemaVars, rolledBack, download_status, clothing_status, crop_path,
      clothing_measurements, writer, ids_to_lock, batch, to_insert, claimLog, completeLog,
      db_buffer>>

\* worker_scanner: tile_queue.get_nowait(); QueueEmpty ends the task.
scanner_get(k) ==
    /\ scanner_tasks[k].pc = "get"
    /\ IF tile_queue = 0
       THEN /\ scanner_tasks' = [scanner_tasks EXCEPT ![k].pc = "done"]
            /\ UNCHANGED tile_queue
       ELSE /\ scanner_tasks' = [scanner_tasks EXCEPT ![k].pc = "fetch"]
            /\ tile_queue' = tile_queue - 1
    /\ UNCHANGED <<cityFrame, pc, imageCols, processing_status, insertLog, seen_ids,
                   image_queue, downloader_tasks, process_city,
                   cityLog>>

\* images = await fetch_images_in_tile(session, tile)
scanner_fetch(k) ==
    /\ scanner_tasks[k].pc = "fetch"
    /\ \E images \in TileResults :
          scanner_tasks' = [scanner_tasks EXCEPT ![k].pc = "loop", ![k].images = images]
    /\ UNCHANGED <<cityFrame, pc, imageCols, processing_status, insertLog, seen_ids,
                   tile_queue, image_queue, downloader_tasks, process_city,
                   cityLog>>

\* Faulty variant of QueueFull: the queue is created without maxsize.
QueueNeverFull == FALSE

\* image_queue.full()
QueueFull == Len(image_queue) >= QueueMaxsize

\* Faulty variant of scanner_loop: the id is put on image_queue without
\* being added to seen_ids.
scanner_loop_unseen(k) ==
    /\ scanner_tasks[k].pc = "loop"
    /\ LET images == scanner_tasks[k].images
       IN  IF images = <<>>
           THEN /\ scanner_tasks' = [scanner_tasks EXCEPT ![k].pc = "get"]
                /\ UNCHANGED <<seen_ids, image_queue, cityLog>>
           ELSE LET img_id == Head(images)
                IN  IF img_id \in seen_ids[CityWorker]
                    THEN /\ scanner_tasks' = [scanner_tasks EXCEPT ![k].images = Tail(images)]
                         /\ UNCHANGED <<seen_ids, image_queue, cityLog>>
                    ELSE /\ UNCHANGED seen_ids
                         /\ IF QueueFull
                            THEN /\ scanner_tasks' = [scanner_tasks EXCEPT ![k].pc = "put",
                                                                            ![k].img = img_id,
                                                                            ![k].images = Tail(images)]
                                 /\ UNCHANGED <<image_queue, cityLog>>
                            ELSE /\ scanner_tasks' = [scanner_tasks EXCEPT ![k].images = Tail(images)]
                                 /\ image_queue' = Append(image_queue, img_id)
                                 /\ cityLog' = [cityLog EXCEPT !.put[img_id] = @ + 1]
    /\ UNCHANGED <<cityFrame, pc, imageCols, processing_status, insertLog,
                   tile_queue, downloader_tasks, process_city>>

\* One iteration of "for img in images": an id that is not in seen_ids is
\* added to it and put on image_queue; put waits while the queue is full.
\* After the last image the task takes the next tile.
scanner_loop(k) ==
    /\ scanner_tasks[k].pc = "loop"
    /\ LET images == scanner_tasks[k].images
       IN  IF images = <<>>
           THEN /\ scanner_tasks' = [scanner_tasks EXCEPT ![k].pc = "get"]
                /\ UNCHANGED <<seen_ids, image_queue, cityLog>>
           ELSE LET img_id == Head(images)
                IN  IF img_id \in seen_ids[CityWorker]
                    THEN /\ scanner_tasks' = [scanner_tasks EXCEPT ![k].images = Tail(images)]
                         /\ UNCHANGED <<seen_ids, image_queue, cityLog>>
                    ELSE /\ seen_ids' = [seen_ids EXCEPT ![CityWorker] = @ \cup {img_id}]
                         /\ IF QueueFull
                            THEN /\ scanner_tasks' = [scanner_tasks EXCEPT ![k].pc = "put",
                                                                            ![k].img = img_id,
                                                                            ![k].images = Tail(images)]
                                 /\ UNCHANGED <<image_queue, cityLog>>
                            ELSE /\ scanner_tasks' = [scanner_tasks EXCEPT ![k].images = Tail(images)]
                                 /\ image_queue' = Append(image_queue, img_id)
                                 /\ cityLog' = [cityLog EXCEPT !.put[img_id] = @ + 1]
    /\ UNCHANGED <<cityFrame, pc, imageCols, processing_status, insertLog,
                   tile_queue, downloader_tasks, process_city>>

\* A scanner waiting in image_queue.put(img) is woken when the queue has room.
scanner_put(k) ==
    /\ scanner_tasks[k].pc = "put"
    /\ ~QueueFull
    /\ image_queue' = Append(image_queue, scanner_tasks[k].img)
    /\ cityLog' = [cityLog EXCEPT !.put[scanner_tasks[k].img] = @ + 1]
    /\ scanner_tasks' = [scanner_tasks EXCEPT ![k].pc = "loop", ![k].img = None]
    /\ UNCHANGED <<cityFrame, pc, imageCols, processing_status, insertLog, seen_ids,
                   tile_queue, downloader_tasks, process_city>>

\* The image ids of a list of records.
ImageIdsOf(records) == [n \in 1..Len(records) |-> records[n].image_id]

\* Faulty variant of downloader_get: the sentinel ends the task without its
\* db_buffer being inserted.
downloader_get_no_flush(k) ==
    /\ downloader_tasks[k].pc = "get"
    /\ image_queue # <<>>
    /\ image_queue' = Tail(image_queue)
    /\ IF Head(image_queue) = None
       THEN downloader_tasks' = [downloader_tasks EXCEPT ![k].pc = "done", ![k].db_buffer = <<>>]
       ELSE downloader_tasks' = [downloader_tasks EXCEPT ![k].pc = "download",
                                                          ![k].item = Head(image_queue)]
    /\ UNCHANGED <<imageCols, processing_status, insertLog, cityLog>>
    /\ UNCHANGED <<cityFrame, pc, seen_ids, tile_queue, scanner_tasks, process_city>>

\* worker_downloader: item = await image_queue.get().  The None sentinel makes
\* the task insert what its db_buffer holds and end.
downloader_get(k) ==
    /\ downloader_tasks[k].pc = "get"
    /\ image_queue # <<>>
    /\ image_queue' = Tail(image_queue)
    /\ IF Head(image_queue) = None
       THEN /\ IF downloader_tasks[k].db_buffer # <<>>
               THEN /\ insert_image_records_batch(downloader_tasks[k].db_buffer)
                    /\ cityLog' = [cityLog EXCEPT !.passed[k] =
                                       @ \o ImageIdsOf(downloader_tasks[k].db_buffer)]
               ELSE UNCHANGED <<imageCols, processing_status, insertLog, cityLog>>
            /\ downloader_tasks' = [downloader_tasks EXCEPT ![k].pc = "done", ![k].db_buffer = <<>>]
       ELSE /\ downloader_tasks' = [downloader_tasks EXCEPT ![k].pc = "download",
                                                              ![k].item = Head(image_queue)]
            /\ UNCHANGED <<imageCols, processing_status, insertLog, cityLog>>
    /\ UNCHANGED <<cityFrame, pc, seen_ids, tile_queue, scanner_tasks, process_city>>

\* The rest of the iteration: with a url and downloaded content the file is
\* written and the record appended to db_buffer, otherwise the image is
\* skipped; a buffer of DB_BATCH_SIZE records is inserted and emptied.
downloader_item(k) ==
    /\ downloader_tasks[k].pc = "download"
    /\ \E content \in BOOLEAN : \E c \in batch[CityWorker] :
          LET buffer == IF content
                        THEN Append(downloader_tasks[k].db_buffer, Record(c, downloader_tasks[k].item))
                        ELSE downloader_tasks[k].db_buffer
              appended == IF content
                          THEN Append(cityLog.appended[k], downloader_tasks[k].item)
                          ELSE cityLog.appended[k]
          IN  IF Len(buffer) >= DB_BATCH_SIZE
              THEN /\ insert_image_records_batch(buffer)
                   /\ cityLog' = [cityLog EXCEPT !.appended[k] = appended,
                                                 !.passed[k] = @ \o ImageIdsOf(buffer)]
                   /\ downloader_tasks' = [downloader_tasks EXCEPT ![k].pc = "get",
                                                                      ![k].item = None,
                                                                      ![k].db_buffer = <<>>]
              ELSE /\ downloader_tasks' = [downloader_tasks EXCEPT ![k].pc = "get",
                                                                      ![k].item = None,
                                                                      ![k].db_buffer = buffer]
                   /\ cityLog' = [cityLog EXCEPT !.appended[k] = appended]
                   /\ UNCHANGED <<imageCols, processing_status, insertLog>>
    /\ UNCHANGED <<cityFrame, pc, seen_ids, tile_queue, image_queue, scanner_tasks, process_city>>

\* await asyncio.gather(*scanner_tasks) returns: every scanner has ended.
scanners_gathered ==
    /\ process_city.pc = "gather_scanners"
    /\ \A k \in Scanners : scanner_tasks[k].pc = "done"
    /\ process_city' = [process_city EXCEPT !.pc = "put_sentinel"]
    /\ UNCHANGED <<cityFrame, pc, imageCols, processing_status, insertLog, seen_ids,
                   tile_queue, image_queue, scanner_tasks, downloader_tasks,
                   cityLog>>

\* Faulty variant of put_sentinel: one sentinel fewer than there are
\* downloader tasks.
put_sentinel_short ==
    /\ process_city.pc = "put_sentinel"
    /\ IF process_city.sentinels >= DOWNLOAD_WORKERS - 1
       THEN /\ process_city' = [process_city EXCEPT !.pc = "gather_downloaders"]
            /\ UNCHANGED image_queue
       ELSE /\ ~QueueFull
            /\ image_queue' = Append(image_queue, None)
            /\ process_city' = [process_city EXCEPT !.sentinels = @ + 1]
    /\ UNCHANGED <<cityFrame, pc, imageCols, processing_status, insertLog, seen_ids,
                   tile_queue, scanner_tasks, downloader_tasks,
                   cityLog>>

\* for _ in range(DOWNLOAD_WORKERS): await image_queue.put(None)
put_sentinel ==
    /\ process_city.pc = "put_sentinel"
    /\ IF process_city.sentinels = DOWNLOAD_WORKERS
       THEN /\ process_city' = [process_city EXCEPT !.pc = "gather_downloaders"]
            /\ UNCHANGED image_queue
       ELSE /\ ~QueueFull
            /\ image_queue' = Append(image_queue, None)
            /\ process_city' = [process_city EXCEPT !.sentinels = @ + 1]
    /\ UNCHANGED <<cityFrame, pc, imageCols, processing_status, insertLog, seen_ids,
                   tile_queue, scanner_tasks, downloader_tasks,
                   cityLog>>

\* Faulty variant of downloaders_gathered: process_city does not await the
\* downloader tasks after it has sent the sentinels.
downloaders_not_awaited ==
    /\ process_city.pc = "gather_downloaders"
    /\ process_city' = [process_city EXCEPT !.pc = "mark"]
    /\ pc' = [pc EXCEPT ![CityWorker] = "complete"]
    /\ UNCHANGED <<cityFrame, imageCols, processing_status, insertLog, seen_ids,
                   tile_queue, image_queue, scanner_tasks, downloader_tasks,
                   cityLog>>

\* await asyncio.gather(*downloader_tasks) returns: every downloader has
\* ended; process_city goes on to mark_city_download_complete.
downloaders_gathered ==
    /\ process_city.pc = "gather_downloaders"
    /\ \A k \in Downloaders : downloader_tasks[k].pc = "done"
    /\ process_city' = [process_city EXCEPT !.pc = "mark"]
    /\ pc' = [pc EXCEPT ![CityWorker] = "complete"]
    /\ UNCHANGED <<cityFrame, imageCols, processing_status, insertLog, seen_ids,
                   tile_queue, image_queue, scanner_tasks, downloader_tasks,
                   cityLog>>

\* The process has claimed city 1; the store may hold an image of it or of
\* the other city already; another process may hold the writer lock.
InitCity ==
    /\ stage = [w \in Workers |-> "download"]
    /\ population = [c \in CityIds |-> 1]
    /\ download_status = [c \in CityIds |-> IF c = 1 THEN "processing" ELSE "pending"]
    /\ \E known \in 0..NumCities :
          /\ processing_status = [i \in ImageIds |-> IF i = 1 /\ known # 0 THEN "pending" ELSE "absent"]
          /\ image_id = [i \in ImageIds |-> IF i = 1 /\ known # 0 THEN 1 ELSE 0]
          /\ city_id = [i \in ImageIds |-> IF i = 1 /\ known # 0 THEN known ELSE 0]
          /\ file_path = [i \in ImageIds |-> IF i = 1 /\ known # 0 THEN PathOf(known, 1) ELSE <<>>]
    /\ clothing_status = [d \in DetectionIds |-> "absent"]
    /\ crop_path = [d \in DetectionIds |-> "null"]
    /\ clothing_measurements = {}
    /\ writer \in {0, NumWorkers}
    /\ pc = [w \in Workers |-> IF w = CityWorker THEN "work" ELSE IF w = writer THEN "select" ELSE "poll"]
    /\ ids_to_lock = [w \in Workers |-> {}]
    /\ batch = [w \in Workers |-> IF w = CityWorker THEN {1} ELSE {}]
    /\ to_insert = [w \in Workers |-> {}]
    /\ claimLog = [NoLog EXCEPT !.city[1] = 1]
    /\ completeLog = NoLog
    /\ db_buffer = NoBuffer
    /\ seen_ids = NoSeen
    /\ dropped = NoDropped
    /\ NoTasks
    /\ bbox = ParsableBbox
    /\ insertLog = NoInsertLog
    /\ SchemaReady

NextCity ==
    \/ process_city_start
    \/ \E k \in Scanners :
          \/ scanner_get(k)
          \/ scanner_fetch(k)
          \/ scanner_loop(k)
          \/ scanner_put(k)
    \/ \E k \in Downloaders :
          \/ downloader_get(k)
          \/ downloader_item(k)
    \/ scanners_gathered
    \/ put_sentinel
    \/ downloaders_gathered
    \/ mark_city_download_complete(CityWorker)
    \/ mark_city_download_complete_busy(CityWorker)

SpecCity == InitCity /\ [][NextCity]_vars

\* The steps of scanner task k, of downloader task k and of process_city
\* itself.
worker_scanner(k) ==
    scanner_get(k) \/ scanner_fetch(k) \/ scanner_loop(k) \/ scanner_put(k)

worker_downloader_task(k) ==
    downloader_get(k) \/ downloader_item(k)

process_city_step ==
    \/ process_city_start
    \/ scanners_gathered
    \/ put_sentinel
    \/ downloaders_gathered
    \/ mark_city_download_complete(CityWorker)
    \/ mark_city_download_complete_busy(CityWorker)

\* One run of process_city on its event loop: a task that stays ready is run,
\* and every fetch, download and file write a task awaits returns.
SpecCityLive ==
    /\ InitCity
    /\ [][NextCity]_vars
    /\ \A k \in Scanners : WF_vars(worker_scanner(k))
    /\ \A k \in Downloaders : WF_vars(worker_downloader_task(k))
    /\ WF_vars(process_city_step)

\* ------------------------------------------------------------------------
\* The claims.

\* The status column, the eligible rows, the existing rows and the log entry of
\* the table a stage claims from.
StatusOf(s) ==
    CASE s = "download" -> download_status
      [] s = "detect" -> processing_status
      [] s = "clothing" -> clothing_status

EligibleOf(s) ==
    CASE s = "download" -> PendingCities
      [] s = "detect" -> PendingImages
      [] s = "clothing" -> PendingDetections

ExistingOf(s) == {r \in DOMAIN StatusOf(s) : StatusOf(s)[r] # "absent"}

LogOf(log, s) ==
    CASE s = "download" -> log.city
      [] s = "detect" -> log.image
      [] s = "clothing" -> log.detection

\* The step in which worker w's claim call returns a non-empty result.
ClaimReturns(w) == pc[w] = "return" /\ pc'[w] = "work"

\* C1: no image and no detection is returned by two claim calls, whichever way
\* the calls of the workers interleave, and the batches held by two workers of
\* one stage are disjoint.
C1_MutualExclusion ==
    /\ \A i \in ImageIds : claimLog.image[i] <= 1
    /\ \A d \in DetectionIds : claimLog.detection[d] <= 1
    /\ \A v, w \in Workers :
          (v # w /\ stage[v] = stage[w] /\ stage[v] \in {"detect", "clothing"})
             => batch[v] \cap batch[w] = {}

C1_Witness ==
    \E v, w \in Workers :
        /\ v # w /\ stage[v] = "detect" /\ stage[w] = "detect"
        /\ pc[v] = "work" /\ pc[w] = "work"
        /\ batch[v] # {} /\ batch[w] # {}

\* C2: every row a claim call returns is 'pending' in the store while the
\* call's transaction is open and 'processing' once the call has returned.
C2_ClaimedWerePending ==
    [][\A w \in Workers : ClaimReturns(w) =>
          \A r \in batch'[w] :
              /\ StatusOf(stage[w])[r] = "pending"
              /\ StatusOf(stage[w])'[r] = "processing"]_vars

C2_Witness ==
    \E w \in Workers :
        /\ stage[w] = "detect" /\ pc[w] = "work" /\ batch[w] # {}
        /\ \A i \in batch[w] : processing_status[i] = "processing"

\* Every worker of stage s has had a claim call return empty and sleeps, and
\* the stage's claim query matches no row: the claimers have run to exhaustion.
Exhausted(s) ==
    /\ \E w \in Workers : stage[w] = s
    /\ \A w \in Workers : stage[w] = s => pc[w] = "sleep"
    /\ EligibleOf(s) = {}

\* C3 as stated: when the claimers of the image or detection table have run
\* to exhaustion, every row of the table has been returned exactly once.
C3_EveryPendingRowReturned ==
    \A s \in {"detect", "clothing"} :
        Exhausted(s) => \A r \in ExistingOf(s) : LogOf(claimLog, s)[r] = 1

\* C3 amended: when the claimers have run to exhaustion, every row that the
\* claim query can select (for a detection: one with a crop_path) has been
\* returned exactly once.
C3_NoWorkLoss ==
    \A s \in {"detect", "clothing"} :
        Exhausted(s) =>
            \A r \in ExistingOf(s) :
                (s = "clothing" => crop_path[r] # "null") => LogOf(claimLog, s)[r] = 1

C3_Witness ==
    /\ \A w \in Workers : stage[w] = "detect"
    /\ Exhausted("detect")
    /\ \A i \in ImageIds : claimLog.image[i] = 1
    /\ \E i \in ImageIds : completeLog.image[i] = 1

\* C4: no city is returned by two calls of get_and_lock_city_for_download, and
\* two downloaders never hold the same city.
C4_CitySingleFlight ==
    /\ \A c \in CityIds : claimLog.city[c] <= 1
    /\ \A v, w \in Workers :
          (v # w /\ stage[v] = "download" /\ stage[w] = "download")
             => batch[v] \cap batch[w] = {}

C4_Witness ==
    \E v, w \in Workers :
        /\ v # w /\ stage[v] = "download" /\ stage[w] = "download"
        /\ pc[v] = "work" /\ pc[w] = "work"
        /\ batch[v] # {} /\ batch[w] # {}

\* A status column changes by a claim (pending to processing), by a complete
\* (processing to the terminal value) or by the insert of the row, and in no
\* other way.
Lifecycle(old, new, terminal) ==
    \/ new = old
    \/ old = "absent" /\ new = "pending"
    \/ old = "pending" /\ new = "processing"
    \/ old = "processing" /\ new = terminal

\* C5: in every step of any number of workers, each row of cities,
\* mapillary_images and mapillary_detections keeps its status or moves
\* pending -> processing or processing -> done/completed.
C5_LifecycleMonotone ==
    [][/\ \A c \in CityIds : Lifecycle(download_status[c], download_status'[c], "done")
       /\ \A i \in ImageIds :
             Lifecycle(processing_status[i], processing_status'[i], "completed")
       /\ \A d \in DetectionIds :
             Lifecycle(clothing_status[d], clothing_status'[d], "completed")]_vars

C5_Witness ==
    /\ \E i \in ImageIds : processing_status[i] = "completed"
    /\ \E i \in ImageIds : processing_status[i] = "processing"
    /\ \E i \in ImageIds : processing_status[i] = "pending"

\* C6: what a dead worker had claimed stays 'processing' and has been returned
\* by that one claim call only, whatever the other workers do afterwards.
C6_StuckRowsInvisible ==
    \A w \in Workers :
        pc[w] = "crashed" =>
            \A r \in batch[w] :
                /\ StatusOf(stage[w])[r] = "processing"
                /\ LogOf(claimLog, stage[w])[r] = 1

C6_Witness ==
    \E v, w \in Workers :
        /\ v # w /\ stage[v] = "detect" /\ stage[w] = "detect"
        /\ pc[w] = "crashed" /\ batch[w] # {}
        /\ pc[v] = "sleep" /\ PendingImages = {}
        /\ \E i \in ImageIds : completeLog.image[i] = 1

\* C7: a row that is 'done' or 'completed' keeps that status in every step and
\* is returned by no claim call.
C7_TerminalNeverReclaimed ==
    [][/\ \A c \in CityIds : download_status[c] = "done" =>
             download_status'[c] = "done" /\ claimLog'.city[c] = claimLog.city[c]
       /\ \A i \in ImageIds : processing_status[i] = "completed" =>
             processing_status'[i] = "completed" /\ claimLog'.image[i] = claimLog.image[i]
       /\ \A d \in DetectionIds : clothing_status[d] = "completed" =>
             clothing_status'[d] = "completed"
                /\ claimLog'.detection[d] = claimLog.detection[d]]_vars

C7_Witness ==
    \E w \in Workers, c \in CityIds :
        /\ stage[w] = "download" /\ download_status[c] = "done"
        /\ pc[w] = "work" /\ batch[w] # {}

\* The step in which worker w's complete call returns.
CompleteReturns(w) == pc[w] = "complete" /\ pc'[w] = "poll"

\* C8: a complete call sets, in one step (its single UPDATE transaction), the
\* status of exactly the rows it is given to 'completed' and changes no other
\* row and no other column; given the empty list it changes nothing and
\* returns. The transaction is all or nothing: when the UPDATE cannot take the
\* writer lock, no row is changed.
C8_CompleteExactlyGiven ==
    [][\A w \in Workers : (CompleteReturns(w) /\ stage[w] # "download") =>
          IF batch[w] = {} \/ ~LockFree
          THEN dbVars' = dbVars /\ writer' = writer
          ELSE   /\ \A r \in ExistingOf(stage[w]) :
                       StatusOf(stage[w])'[r] =
                          IF r \in batch[w] THEN "completed" ELSE StatusOf(stage[w])[r]
                 /\ ExistingOf(stage[w])' = ExistingOf(stage[w])
                 /\ stage[w] # "detect" => processing_status' = processing_status
                 /\ stage[w] # "clothing" => clothing_status' = clothing_status
                 /\ UNCHANGED <<download_status, crop_path, clothing_measurements, imageCols, writer>>]_vars

\* A complete call has marked the rows it was given, among them rows that were
\* 'pending', and has left a 'processing' and a 'pending' row alone.
C8_Witness ==
    /\ stage[1] = "clothing" /\ pc[1] = "poll"
    /\ \E d \in DetectionIds : completeLog.detection[d] = 1
    /\ \E d \in DetectionIds :
          completeLog.detection[d] = 0 /\ clothing_status[d] \in {"pending", "processing"}

\* An empty identifier list was passed and nothing happened.
C8_WitnessEmpty ==
    /\ stage[1] = "detect" /\ pc[1] = "poll" /\ completeLog = NoLog
    /\ \E i \in ImageIds : processing_status[i] = "processing"

\* Every image that a claim call returned was written by a complete call.
AllClaimedImagesCompleted ==
    \A i \in ImageIds : claimLog.image[i] >= 1 => completeLog.image[i] >= 1

\* Claims have drained the image table and every claimed batch was completed:
\* then no image is 'pending' or 'processing'.
DrainedImages ==
    (PendingImages = {} /\ AllClaimedImagesCompleted)
       => \A i \in ImageIds : processing_status[i] \in {"absent", "completed"}

C10_EmptyQueue ==
    [][\A w \in Workers :
          (pc[w] = "select" /\ pc'[w] \notin {"select", "crashed"}
             /\ EligibleOf(stage[w]) = {}) =>
                /\ pc'[w] = "sleep"
                /\ batch'[w] = {}
                /\ dbVars' = dbVars
                /\ claimLog' = claimLog
                /\ writer' # w]_vars

\* A detector found the image table empty and sleeps while the other detector
\* is inside its own claim transaction.
C10_Witness ==
    \E v, w \in Workers :
        /\ v # w /\ stage[v] = "detect" /\ stage[w] = "detect"
        /\ PendingImages = {}
        /\ pc[w] = "sleep" /\ pc[v] = "select" /\ writer = v

\* C11: whenever get_and_lock_city_for_download returns a city, no city that
\* is 'pending' inside the claim transaction has a larger population.
C11_PriorityOrdering ==
    [][\A w \in Workers :
          (ClaimReturns(w) /\ stage[w] = "download") =>
             \A c \in batch'[w] : \A o \in PendingCities :
                 population[c] >= population[o]]_vars

\* A downloader holds a city while a city of smaller population is pending.
C11_Witness ==
    \E w \in Workers : \E c, o \in CityIds :
        /\ stage[w] = "download" /\ pc[w] = "work" /\ batch[w] = {c}
        /\ download_status[o] = "pending"
        /\ population[o] < population[c]

\* No two rows of mapillary_images hold the same image_id.
UniqueImageIds ==
    \A i, j \in ImageIds :
        (processing_status[i] # "absent" /\ processing_status[j] # "absent"
            /\ image_id[i] = image_id[j]) => i = j

\* C12: a call of insert_image_records_batch leaves every row that was in
\* the table before the call where it was, with the same image_id, city_id,
\* file_path and processing_status, whatever records it is given, and no
\* image_id is ever held by two rows.
C12_IdempotentInsert ==
    [][insertLog.on =>
          /\ \A i \in ImageIds : processing_status[i] # "absent" =>
                /\ image_id'[i] = image_id[i]
                /\ city_id'[i] = city_id[i]
                /\ file_path'[i] = file_path[i]
                /\ processing_status'[i] = processing_status[i]
          /\ UniqueImageIds']_vars

\* The last call was given two records for the same image id, which a row
\* of another city, already 'completed', holds; the lock was free.
C12_Witness ==
    /\ insertLog.on /\ writer = 0
    /\ Len(insertLog.records) = 2
    /\ insertLog.records[1].image_id = insertLog.records[2].image_id
    /\ \E i \in ImageIds :
          /\ processing_status[i] = "completed"
          /\ image_id[i] = insertLog.records[1].image_id
          /\ city_id[i] # insertLog.records[1].city_id
    /\ \E i \in ImageIds : processing_status[i] = "absent"

\* The step is a statement of create_tables executed by process w.
SchemaStatement(w) ==
    pc[w] \notin {"poll", "error"} /\ pc'[w] # pc[w]

\* C13: a create_tables call that begins on a store on which another call has
\* run to its end (whatever that store lacked before) raises no error,
\* executes no ALTER TABLE and leaves the set of tables and columns as it
\* was.
C13_SecondCallChangesNothing ==
    [][\A w \in Workers :
          /\ (SchemaStatement(w) /\ pc[w] # "create_cities" /\ sequential[w]) =>
                /\ schema' = schema
                /\ pc'[w] \notin {"error", "alter_processing_status",
                                  "alter_crop_path", "alter_clothing_status"}
          /\ (SchemaStatement(w) /\ pc[w] = "create_cities"
                /\ \E v \in Workers : pc[v] = "poll") =>
                schema' = schema]_vars

\* The first call added all three columns by ALTER TABLE; the second call
\* began after it and has ended.
C13_Witness ==
    \E v, w \in Workers :
        /\ v # w /\ pc[v] = "poll" /\ pc[w] = "poll"
        /\ alters[v] = {"processing_status", "crop_path", "clothing_status"}
        /\ sequential[w] /\ alters[w] = {}

\* C14 as stated: whichever way the create_tables calls of the processes
\* interleave, no call ends in an error and no column is in the store twice.
C14_ConcurrentStartupSafe ==
    /\ \A w \in Workers : pc[w] # "error"
    /\ \A o \in Objects : schema[o] <= 1

\* The step in which a claim call of worker w ends without a result: its
\* BEGIN IMMEDIATE timed out, a statement of its transaction raised, or its
\* query matched nothing.
ClaimFails(w) ==
    pc[w] \in {"poll", "select", "update", "return"} /\ pc'[w] = "sleep"

\* The step in which the UPDATE of a complete call of worker w times out.
CompleteFails(w) ==
    CompleteReturns(w) /\ batch[w] # {} /\ ~LockFree

\* The step in which worker w dies inside its claim transaction.
DiesInTransaction(w) ==
    pc[w] \in {"select", "update", "return"} /\ pc'[w] = "crashed"

\* The rows of the table of stage s whose committed status the step changes.
ChangedRows(s) == {r \in ExistingOf(s) : StatusOf(s)'[r] # StatusOf(s)[r]}

\* C15: a claim or complete call that fails leaves every row's status as it
\* was before the call, and every step changes the status of all rows of one
\* worker's batch or of none: no state shows a batch moved in part.
C15_AtomicRollback ==
    [][/\ \A w \in Workers :
             (ClaimFails(w) \/ CompleteFails(w) \/ DiesInTransaction(w))
                => dbVars' = dbVars
       /\ \A s \in {"download", "detect", "clothing"} :
             \/ ChangedRows(s) = {}
             \/ \E w \in Workers :
                   stage[w] = s /\ ChangedRows(s) \in {ids_to_lock[w], batch[w]}]_vars

\* A claim transaction failed after its UPDATE of two images: the worker
\* sleeps, the lock is free and both images are 'pending' as before.
C15_Witness ==
    \E w \in Workers :
        /\ stage[w] = "detect" /\ pc[w] = "sleep" /\ writer = 0
        /\ Cardinality(rolledBack[w]) = 2
        /\ \A i \in rolledBack[w] : processing_status[i] = "pending"

\* C16 as stated: a complete call that hit a busy store is tried again, so an
\* image or detection is never left 'processing' by a worker that has gone on
\* to other work: every 'processing' row is in the batch of a worker of its
\* stage (a worker at work on it, about to complete it, or dead).
C16_BusyCompleteRetried ==
    \A s \in {"detect", "clothing"} :
        \A r \in ExistingOf(s) :
            StatusOf(s)[r] = "processing" =>
                \E w \in Workers : stage[w] = s /\ r \in batch[w]

\* The step in which the stage work of worker w on its claimed unit ends,
\* by finishing or by an exception (not by the death of the process).
WorkEnds(w) ==
    pc[w] \in {"work", "insert"} /\ pc'[w] \notin {"work", "insert", "crashed"}

\* C17 as stated: in every stage, however the stage work on a claimed unit
\* ends, the worker goes on to the stage's complete call for that unit.
C17_CompleteOnFailure ==
    [][\A w \in Workers :
          WorkEnds(w) => (pc'[w] = "complete" /\ batch'[w] = batch[w])]_vars

\* C18: the poll loop survives bad batches.  In every stage worker an
\* exception raised while a claimed batch or city is processed is caught inside
\* the loop iteration, and the worker goes on to issue another claim: a worker
\* that is processing, inserting, completing or sleeping after a failure is
\* later at the head of its loop, about to call its claim operation.
InIteration(w) == pc[w] \in {"work", "insert", "complete", "failed"}

C18_LoopSurvives ==
    \A w \in Workers : InIteration(w) ~> (pc[w] = "poll")

\* A downloader whose process_city raised is in the except branch of main's
\* loop, its city still 'processing'.
C18_Witness ==
    \E w \in Workers : \E c \in CityIds :
        /\ stage[w] = "download" /\ pc[w] = "failed"
        /\ download_status[c] = "processing"
        /\ claimLog.city[c] = 1 /\ completeLog.city[c] = 0

\* C19: liveness of claimed work.  With workers that are not terminated and
\* keep polling, and a store that grants the writer lock, every image row and
\* every detection row that is 'processing' is 'completed' later, whether its
\* file was missing, its processing raised, or it was processed.
C19_ClaimedEventuallyCompleted ==
    /\ \A i \in ImageIds :
          (processing_status[i] = "processing") ~> (processing_status[i] = "completed")
    /\ \A d \in DetectionIds :
          (clothing_status[d] = "processing") ~> (clothing_status[d] = "completed")

\* C20: the write lock is not held during stage work.  A worker that performs
\* stage work (download, inference, file I/O), that inserts or completes
\* between two calls, or that sleeps between polls holds no open write
\* transaction: the writer lock is held only between the BEGIN IMMEDIATE of a
\* call and its commit or rollback, on the empty-result and the error paths
\* too.
InTransaction(w) == pc[w] \in {"select", "update", "return"}

C20_NoLockOutsideTransaction ==
    \A w \in Workers : writer = w => InTransaction(w)

\* One worker does stage work on its batch while another sleeps after a claim
\* that failed and was rolled back; the lock is free.
C20_Witness ==
    \E v, w \in Workers :
        /\ pc[w] = "work" /\ batch[w] # {}
        /\ pc[v] = "sleep" /\ rolledBack[v] # {}
        /\ writer = 0

\* The step is a step of a claim or complete call of worker w.
ClaimOrCompleteStep(w) ==
    /\ pc[w] \in {"poll", "select", "update", "return", "complete"}
    /\ pc'[w] # pc[w] /\ pc'[w] # "crashed"

\* C21: stage-exclusive status columns.  A claim or complete call of the
\* download stage changes no status column but cities.download_status, one of
\* the detection stage none but mapillary_images.processing_status, one of
\* the clothing stage none but mapillary_detections.clothing_status.
C21_StageExclusiveColumns ==
    [][\A w \in Workers :
          ClaimOrCompleteStep(w) =>
              /\ stage[w] # "download" => download_status' = download_status
              /\ stage[w] # "detect" => processing_status' = processing_status
              /\ stage[w] # "clothing" => clothing_status' = clothing_status]_vars

\* A downloader has marked a city 'done' while image rows of that city are
\* pending or claimed by the detection stage.
C21_Witness ==
    \E c \in CityIds : \E i \in ImageIds :
        /\ download_status[c] = "done" /\ completeLog.city[c] = 1
        /\ city_id[i] = c
        /\ processing_status[i] \in {"pending", "processing"}

\* Row r of the table of stage s is stuck: 'processing', and no live worker
\* holds it (its claimer was terminated, or dropped it).
Stuck(s, r) ==
    /\ StatusOf(s)[r] = "processing"
    /\ \A w \in Workers : (stage[w] = s /\ r \in batch[w] \cup ids_to_lock[w]) => pc[w] = "crashed"

\* A step of the program that takes row r of stage s from 'processing' back
\* to 'pending'.
ResetStep(s, r) ==
    /\ Next
    /\ StatusOf(s)[r] = "processing"
    /\ StatusOf(s)'[r] = "pending"

\* C23: a reset maintenance operation exists.  For every row that is stuck in
\* 'processing' the program has an operation that moves it back to 'pending',
\* so that it can be claimed again.
C23_ResetStuckExists ==
    \A s \in {"download", "detect", "clothing"} :
        \A r \in ExistingOf(s) :
            Stuck(s, r) => ENABLED ResetStep(s, r)

\* Tasks of a kind that have been created and have not ended.
Running(tasks) == {k \in DOMAIN tasks : tasks[k].pc \notin {"none", "done"}}

\* The items of image_queue.
Queued == {image_queue[n] : n \in 1..Len(image_queue)}

\* C24: bounded internal concurrency of the download stage.  While a city is
\* processed no more than SCANNER_WORKERS scanner tasks and DOWNLOAD_WORKERS
\* downloader tasks run and image_queue never holds more than its maxsize; an
\* image a scanner has accepted (added to seen_ids) is on the queue after the
\* step or is held by that scanner waiting in put, and a waiting scanner
\* keeps its image until it has put it on the queue.
C24_BoundedConcurrency ==
    /\ [](/\ Cardinality(Running(scanner_tasks)) <= SCANNER_WORKERS
          /\ Cardinality(Running(downloader_tasks)) <= DOWNLOAD_WORKERS
          /\ Len(image_queue) <= QueueMaxsize)
    /\ [][/\ process_city.pc # "none" =>
                \A e \in seen_ids'[CityWorker] \ seen_ids[CityWorker] :
                    \/ image_queue' = Append(image_queue, e)
                    \/ \E k \in Scanners :
                          scanner_tasks'[k].pc = "put" /\ scanner_tasks'[k].img = e
          /\ \A k \in Scanners :
                scanner_tasks[k].pc = "put" =>
                    \/ scanner_tasks'[k] = scanner_tasks[k]
                    \/ image_queue' = Append(image_queue, scanner_tasks[k].img)]_vars

\* The queue is full, one scanner waits in put with an image and the other
\* scanner is running too.
C24_Witness ==
    /\ Len(image_queue) = QueueMaxsize
    /\ \E k \in Scanners : scanner_tasks[k].pc = "put" /\ scanner_tasks[k].img # None
    /\ Cardinality(Running(scanner_tasks)) = SCANNER_WORKERS

\* C25: complete covers the whole claimed batch.  In the detection worker,
\* from the return of a non-empty claim to the call of
\* mark_batch_analysis_complete the ids kept for that call are the ids the
\* claim returned, whether files were missing, no person was found or the
\* work raised, and the iteration leaves its work only for that call.
C25_CompleteCoversBatch ==
    [][\A w \in Workers :
          (stage[w] = "detect" /\ pc[w] \in {"work", "insert"} /\ pc'[w] # "crashed") =>
              /\ pc'[w] \in {"work", "insert", "complete"}
              /\ batch[w] # {}
              /\ batch'[w] = batch[w]
              /\ \A i \in batch[w] : claimLog.image[i] = 1]_vars

\* A detector is about to complete a batch of two images for which nothing is
\* to be inserted (files missing or no person found).
C25_Witness ==
    \E w \in Workers :
        /\ stage[w] = "detect" /\ pc[w] = "complete"
        /\ Cardinality(batch[w]) = 2 /\ to_insert[w] = {}
        /\ \A d \in DetectionIds : clothing_status[d] = "absent"

\* C26: every pending city is eventually claimed.  With downloaders that keep
\* polling and are not terminated, each city whose download_status is
\* 'pending' is later returned by get_and_lock_city_for_download, also when
\* the claim of a pending city of higher population raises (a bbox that is
\* not JSON).
C26_PendingCityClaimed ==
    \A c \in CityIds :
        (download_status[c] = "pending" /\ bbox[c] = "json") ~> (claimLog.city[c] > 0)

\* The step in which a claim call of worker w ends without a committed claim
\* (lock timeout, store error, exception inside the transaction).
ClaimEndsUncommitted(w) ==
    /\ pc[w] \in {"poll", "select", "update", "return"}
    /\ pc'[w] \notin {pc[w], "select", "update", "return", "work", "crashed"}
    /\ ~(pc[w] = "select" /\ EligibleOf(stage[w]) = {})

\* C27: a failed claim changes nothing and reports empty.  When a claim call
\* of any stage hits a lock timeout, a store error or an exception before its
\* commit, the caller gets None or an empty list and goes on in its loop
\* (nothing is raised to it), the rows the call had selected are 'pending' as
\* before, no row of any table has changed and nothing counts as claimed.
C27_FailedClaimChangesNothing ==
    [][\A w \in Workers :
          ClaimEndsUncommitted(w) =>
              /\ pc'[w] = "sleep"
              /\ batch'[w] = {} /\ ids_to_lock'[w] = {}
              /\ \A r \in ids_to_lock[w] : StatusOf(stage[w])'[r] = "pending"
              /\ dbVars' = dbVars
              /\ claimLog' = claimLog
              /\ writer' # w]_vars

\* A downloader sleeps after a claim that raised after its UPDATE; the city
\* it had selected is 'pending'.
C27_Witness ==
    \E w \in Workers :
        /\ stage[w] = "download" /\ pc[w] = "sleep" /\ batch[w] = {}
        /\ rolledBack[w] # {}
        /\ \A c \in rolledBack[w] : download_status[c] = "pending"

\* C28: the claim returns the rows it locked.  The records
\* claim_batch_for_analysis returns are those of the ids it selected and
\* updated in this transaction, no more and no fewer, read while the
\* transaction is open, and each of them is 'processing'; no other row changes.
C28_ReturnsLockedRows ==
    [][\A w \in Workers :
          (stage[w] = "detect" /\ ClaimReturns(w)) =>
              /\ writer = w
              /\ batch'[w] = ids_to_lock[w] /\ batch'[w] # {}
              /\ \A i \in ImageIds :
                    processing_status'[i] =
                        IF i \in batch'[w] THEN "processing" ELSE processing_status[i]]_vars

\* A detector works on the two images its claim returned while the other
\* detector holds the third image, 'processing' as well.
C28_Witness ==
    \E v, w \in Workers :
        /\ v # w /\ stage[v] = "detect" /\ stage[w] = "detect"
        /\ pc[w] = "work" /\ Cardinality(batch[w]) = 2
        /\ Cardinality(batch[v]) = 1 /\ pc[v] # "crashed"
        /\ \A i \in batch[v] \cup batch[w] : processing_status[i] = "processing"

\* C29: status domain invariant.  In every state each city's download_status
\* is pending, processing or done, each image row's processing_status and each
\* detection row's clothing_status is pending, processing or completed, and
\* a row that insert_image_records_batch or insert_detections_batch creates
\* starts as 'pending'.
C29_StatusDomain ==
    /\ [](/\ \A c \in CityIds : download_status[c] \in CityStatus
          /\ \A i \in ImageIds : processing_status[i] \in RowStatus \cup {"absent"}
          /\ \A d \in DetectionIds : clothing_status[d] \in RowStatus \cup {"absent"})
    /\ [][/\ \A i \in ImageIds :
                (processing_status[i] = "absent" /\ processing_status'[i] # "absent")
                    => processing_status'[i] = "pending"
          /\ \A d \in DetectionIds :
                (clothing_status[d] = "absent" /\ clothing_status'[d] # "absent")
                    => clothing_status'[d] = "pending"]_vars

\* An image the downloader inserted (its city is not the one the initial
\* rows have) has been claimed and completed, a detection has been inserted
\* for the batch and a city is done.
C29_Witness ==
    /\ \E i \in ImageIds :
          /\ image_id[i] # 0 /\ city_id[i] # FirstCityOf(image_id[i])
          /\ processing_status[i] = "completed"
    /\ \E d \in DetectionIds : clothing_status[d] = "pending"
    /\ \E c \in CityIds : download_status[c] = "done"

\* process_city has nothing in flight: every scanner and every downloader
\* task has ended, image_queue is empty and no db_buffer holds a record.
NothingInFlight ==
    /\ \A k \in Scanners : scanner_tasks[k].pc = "done"
    /\ \A k \in Downloaders :
          downloader_tasks[k].pc = "done" /\ downloader_tasks[k].db_buffer = <<>>
    /\ image_queue = <<>>
    /\ tile_queue = 0

\* C30: city completion ordering.  mark_city_download_complete is called
\* only after all scanner tasks have ended and every downloader task has
\* taken its sentinel, inserted what its buffer held and ended: when
\* process_city is at that call, and when the city is 'done', no image of the
\* run waits in the queue or in a buffer.
C30_CompleteAfterDrain ==
    /\ (process_city.pc = "mark" \/ pc[CityWorker] = "complete") =>
          (NothingInFlight /\ process_city.sentinels = DOWNLOAD_WORKERS)
    /\ \A c \in CityIds : download_status[c] = "done" => NothingInFlight

\* The city is 'done' and the store holds the one image of the run, inserted
\* by a downloader when it took its sentinel.
C30_Witness ==
    /\ download_status[1] = "done"
    /\ process_city.pc = "mark"
    /\ Cardinality({i \in ImageIds : image_id[i] # 0}) = 1
    /\ \E i \in ImageIds : image_id[i] = 2 /\ city_id[i] = 1

\* process_city has returned: every task has ended, the sentinels are sent
\* and mark_city_download_complete has been called.
Terminated ==
    /\ process_city.pc = "mark" /\ pc[CityWorker] = "poll"
    /\ \A k \in Scanners : scanner_tasks[k].pc = "done"
    /\ \A k \in Downloaders : downloader_tasks[k].pc = "done"
    /\ process_city.sentinels = DOWNLOAD_WORKERS

\* Sentinels that wait on image_queue.
QueuedSentinels == Cardinality({n \in 1..Len(image_queue) : image_queue[n] = None})

\* C31: download stage shutdown terminates.  When every fetch and file write
\* returns, process_city terminates: a scanner ends only when the tile queue
\* is empty, sentinels are put only after every scanner has ended and never
\* more than DOWNLOAD_WORKERS of them, every sentinel taken from the queue
\* ended exactly one downloader, and a run that has begun reaches the state
\* in which all tasks have ended and process_city has returned, so that no
\* task waits for ever on the bounded image queue.
C31_ShutdownTerminates ==
    /\ [](/\ \A k \in Scanners : scanner_tasks[k].pc = "done" => tile_queue = 0
          /\ process_city.sentinels > 0 => \A k \in Scanners : scanner_tasks[k].pc = "done"
          /\ process_city.sentinels <= DOWNLOAD_WORKERS
          /\ process_city.sentinels =
                QueuedSentinels + Cardinality({k \in Downloaders : downloader_tasks[k].pc = "done"}))
    /\ (process_city.pc = "gather_scanners") ~> Terminated

\* process_city has returned after a run in which more images were put on
\* image_queue than it can hold.
C31_Witness ==
    /\ Terminated
    /\ Cardinality({e \in ImageIds : cityLog.put[e] > 0}) > QueueMaxsize

\* How often image id e has been handed to image_queue.put: the puts that
\* have returned and those of scanners that wait for room.
Puts(e) ==
    cityLog.put[e] + Cardinality({k \in Scanners :
                                     scanner_tasks[k].pc = "put" /\ scanner_tasks[k].img = e})

\* C32: scan-time deduplication.  During one process_city run, with the
\* scanner tasks running concurrently over tiles that return the same
\* images, each image id is put on image_queue at most once, and an id that
\* was stored for the city before the run is never put.
C32_PutAtMostOnce ==
    /\ \A e \in ImageIds : Puts(e) <= 1
    /\ \A e \in process_city.existing_ids : Puts(e) = 0

\* Two scanners are inside their tiles' lists: the next image of one has
\* been put on the queue by an earlier tile, the next image of the other was
\* stored for the city before the run.
C32_Witness ==
    \E k, j \in Scanners :
       /\ scanner_tasks[k].pc = "loop" /\ scanner_tasks[k].images # <<>>
       /\ cityLog.put[Head(scanner_tasks[k].images)] = 1
       /\ scanner_tasks[j].pc = "loop" /\ scanner_tasks[j].images # <<>>
       /\ Head(scanner_tasks[j].images) \in process_city.existing_ids

C34_DetectionsBeforeComplete ==
    \A i \in dropped.images : processing_status[i] # "completed"

\* C35: clothing claim eligibility.  claim_detections_for_analysis returns
\* only detections that were 'pending' with a crop_path when it selected them;
\* a detection row whose crop_path is NULL is in no claimed batch, has never
\* been returned by a claim and is 'pending' in every state, and its crop_path
\* stays NULL.
C35_NullCropNeverClaimed ==
    /\ [](\A d \in ExistingOf("clothing") :
             crop_path[d] = "null" =>
                /\ clothing_status[d] = "pending"
                /\ claimLog.detection[d] = 0
                /\ \A w \in Workers :
                      stage[w] = "clothing" => d \notin batch[w] \cup ids_to_lock[w])
    /\ [][/\ \A w \in Workers :
               (stage[w] = "clothing" /\ ClaimReturns(w)) =>
                   \A d \in batch'[w] :
                       clothing_status[d] = "pending" /\ crop_path[d] # "null"
          /\ \A d \in ExistingOf("clothing") :
               crop_path[d] = "null" => crop_path'[d] = "null"]_vars

\* A clothing worker found nothing more to claim and sleeps: one detection
\* has been claimed and completed, the other has no crop_path and is still
\* 'pending'.
C35_Witness ==
    /\ \E w \in Workers : stage[w] = "clothing" /\ pc[w] = "sleep"
    /\ \E d, e \in DetectionIds :
          /\ crop_path[d] = "null" /\ clothing_status[d] = "pending"
          /\ crop_path[e] = "path" /\ clothing_status[e] = "completed"
          /\ claimLog.detection[e] = 1

\* C36: clothing measurements are written only for claimed detections.  In
\* every step the detections that gain clothing_measurements rows are in the
\* batch of a clothing worker that is at its insert, and are 'processing';
\* no step removes a detection's measurements, and no step of a claim or a
\* complete call changes clothing_measurements.
C36_MeasurementsOnlyForClaimed ==
    [][/\ clothing_measurements \subseteq clothing_measurements'
       /\ \A d \in clothing_measurements' \ clothing_measurements :
             \E w \in Workers :
                /\ stage[w] = "clothing" /\ pc[w] = "insert" /\ pc'[w] = "complete"
                /\ d \in batch[w] /\ d \in to_insert[w]
                /\ clothing_status[d] = "processing"
                /\ claimLog.detection[d] = 1
       /\ \A w \in Workers :
             ClaimOrCompleteStep(w) => clothing_measurements' = clothing_measurements]_vars

\* A clothing worker has inserted the measurements of the detection it holds
\* and is about to complete it, while the measurements of a detection that
\* was completed earlier are still there.
C36_Witness ==
    \E w \in Workers : \E d, e \in DetectionIds :
        /\ stage[w] = "clothing" /\ pc[w] = "complete"
        /\ d \in batch[w] /\ d \in clothing_measurements
        /\ clothing_status[d] = "processing"
        /\ e \in clothing_measurements /\ clothing_status[e] = "completed"
====
